---- MODULE Spec2Model ----
(***************************************************************************)
(* A model of oxdraw's diagram core (src/src/diagram.rs): the grammar      *)
(* parser and its serializer, the level-based auto layout with top-level   *)
(* subgraph separation, and the edge router.  Of the two calls layout      *)
(* makes to compute_routes, the one on the final positions with the        *)
(* overrides is modelled; the routed nodes are rectangles or stadiums,     *)
(* the clipping of circles and diamonds is left out.                       *)
(*                                                                         *)
(* Text is a sequence of one-character strings; a definition is one such   *)
(* sequence with "\n" between its lines.  Coordinates are fixed-point      *)
(* integers (see Scale).                                                   *)
(***************************************************************************)
EXTENDS Integers, Sequences, FiniteSets, TLC

VARIABLES
    \* ---- the parser (Diagram::parse) and the round trip through to_definition
    pc,                 \* position of the running operation
    pass,               \* 1: parsing the given text, 2: parsing to_definition's text
    definition,         \* the text handed to Diagram::parse
    lines,              \* the significant lines parse has not consumed yet
    direction,          \* Diagram.direction
    nodes,              \* Diagram.nodes: id -> [label, shape]
    order,              \* Diagram.order
    edges,              \* Diagram.edges
    node_membership,    \* Diagram.node_membership: id -> path of subgraph ids
    subgraph_stack,     \* parse: the open SubgraphBuilder frames
    top_subgraphs,      \* parse: the closed top-level frames
    seen_subgraph_ids,  \* parse: ids of all subgraphs declared so far
    subgraph_counter,   \* parse: next declaration index
    subgraphs,          \* Diagram.subgraphs
    skipped,            \* lines parse consumed without any effect and without an error
    first,              \* the Diagram of pass 1, kept for the round-trip comparison
    \* ---- Diagram::layout: compute_auto_layout, separate_top_level_subgraphs, overrides
    overrides,          \* the LayoutOverrides handed to layout: [nodes, edges]
    levels,             \* compute_auto_layout: id -> level
    indegree,           \* compute_auto_layout: id -> incoming edges not yet relaxed
    queue,              \* compute_auto_layout: the VecDeque of ready nodes
    visited,            \* compute_auto_layout: the nodes dequeued so far
    auto_positions,     \* auto.positions: id -> Point
    sg_index,           \* separate_top_level_subgraphs: index of the next top-level subgraph
    placed_bounds,      \* separate_top_level_subgraphs: rectangles placed so far
    final_positions,    \* LayoutComputation.final_positions
    \* ---- Diagram::compute_routes on the final positions
    hash_order,         \* the order in which this call's node_bounds map is iterated
    routes,             \* the routes map: edge identifier -> points
    route_index,        \* index of the next edge to route
    call,               \* 1: the first call of layout, 2: a second call on the same input
    first_layout,       \* the positions and routes the first call returned
    \* ---- Diagram::remove_node and Diagram::remove_edge_by_identifier
    geometry,           \* what align_geometry returned
    edits,              \* the number of calls so far that returned true
    last_edit,          \* the last call of remove_node or remove_edge_by_identifier
    \* ---- Diagram::render_svg
    background,         \* the background argument
    styles,             \* LayoutOverrides.node_styles and LayoutOverrides.edge_styles
    svg,                \* the elements written so far, with the strings put into them
    render_call,        \* 1: the first call of render_svg, 2: a second call on the same input
    first_svg,          \* the elements the first call wrote
    \* ---- ServeState (src/src/serve.rs) and the source file it edits
    source_file,        \* the text of the file at source_path
    store,              \* ServeState.overrides
    source_lock,        \* the task that holds ServeState.source_lock, 0 when it is free
    tasks,              \* the calls of the handlers: task -> [op, at, arg, snapshot, ...]
    loaded,             \* what the last split_source_and_overrides of the file returned
    written,            \* the snapshots of the overrides taken and written so far
    \* ---- database mode: the diagrams table (src/src/files.rs) and the requests
    database,           \* [rows: id -> row of the diagrams table, seq: the last id given out]
    requests,           \* the requests being handled: request -> [op, at, session, id, ...]
    reached             \* the rows the handlers have returned or written, as they were then

parseVars == <<pc, pass, definition, lines, direction, nodes, order, edges,
               node_membership, subgraph_stack, top_subgraphs, seen_subgraph_ids,
               subgraph_counter, subgraphs, skipped, first>>

parseVarsButPc == <<pass, definition, lines, direction, nodes, order, edges,
                    node_membership, subgraph_stack, top_subgraphs, seen_subgraph_ids,
                    subgraph_counter, subgraphs, skipped, first>>

layoutVars == <<overrides, levels, indegree, queue, visited, auto_positions,
                sg_index, placed_bounds, final_positions>>

routeVars == <<hash_order, routes, route_index, call, first_layout, geometry>>

editVars == <<edits, last_edit>>

renderVars == <<background, styles, svg, render_call, first_svg>>

dbVars == <<database, requests, reached>>

serveVars == <<source_file, store, source_lock, tasks, loaded, written, dbVars>>

\* everything the handlers of the file mode that do not parse a diagram leave alone
diagramVars == <<parseVars, layoutVars, routeVars, editVars, renderVars, dbVars>>

\* everything the handlers of the database mode leave alone
fileVars == <<parseVars, layoutVars, routeVars, editVars, renderVars, source_file, store,
              source_lock, tasks, loaded, written>>

\* everything Diagram::parse leaves alone
geomVars == <<layoutVars, routeVars, editVars, renderVars, serveVars>>

vars == <<parseVars, geomVars>>

-----------------------------------------------------------------------------
(* Bounds of the model *)

\* number of lines after the header in a definition drawn by the parser's Init
MaxLines == 3

-----------------------------------------------------------------------------
(* Text helpers: str methods of the Rust standard library used by the code *)

NL == "\n"

IsWhitespace(c) == c \in {" ", "\t", "\r", "\n"}

UpperChars == <<"A","B","C","D","E","F","G","H","I","J","K","L","M",
                "N","O","P","Q","R","S","T","U","V","W","X","Y","Z">>
LowerChars == <<"a","b","c","d","e","f","g","h","i","j","k","l","m",
                "n","o","p","q","r","s","t","u","v","w","x","y","z">>

MinOf(S) == CHOOSE x \in S : \A y \in S : x <= y
MaxOf(S) == CHOOSE x \in S : \A y \in S : x >= y

\* char::to_ascii_lowercase / to_ascii_uppercase
ToLowerChar(c) ==
    IF \E i \in 1..26 : UpperChars[i] = c
    THEN LowerChars[CHOOSE i \in 1..26 : UpperChars[i] = c] ELSE c
ToUpperChar(c) ==
    IF \E i \in 1..26 : LowerChars[i] = c
    THEN UpperChars[CHOOSE i \in 1..26 : LowerChars[i] = c] ELSE c
ToLower(s) == [i \in 1..Len(s) |-> ToLowerChar(s[i])]
ToUpper(s) == [i \in 1..Len(s) |-> ToUpperChar(s[i])]

RECURSIVE TrimStart(_)
TrimStart(s) ==
    IF s # <<>> /\ IsWhitespace(s[1]) THEN TrimStart(Tail(s)) ELSE s

RECURSIVE TrimEnd(_)
TrimEnd(s) ==
    IF s # <<>> /\ IsWhitespace(s[Len(s)])
    THEN TrimEnd(SubSeq(s, 1, Len(s) - 1)) ELSE s

\* str::trim
Trim(s) == TrimEnd(TrimStart(s))

StartsWith(s, p) == Len(s) >= Len(p) /\ SubSeq(s, 1, Len(p)) = p
EndsWith(s, p) == Len(s) >= Len(p) /\ SubSeq(s, Len(s) - Len(p) + 1, Len(s)) = p

\* str::find: the 1-based index of the first occurrence of p in s, 0 when absent
RECURSIVE FindFrom(_, _, _)
FindFrom(s, p, i) ==
    IF i + Len(p) - 1 > Len(s) THEN 0
    ELSE IF SubSeq(s, i, i + Len(p) - 1) = p THEN i
    ELSE FindFrom(s, p, i + 1)

Find(s, p) == FindFrom(s, p, 1)

Contains(s, p) == Find(s, p) # 0

\* the part of s from 1-based index i to the end
From(s, i) == SubSeq(s, i, Len(s))

\* a line without the "\r" before its "\n"
StripCr(line) ==
    IF line # <<>> /\ line[Len(line)] = "\r" THEN SubSeq(line, 1, Len(line) - 1) ELSE line

\* str::lines: split at "\n" and "\r\n"; a final empty piece is not a line
RECURSIVE SplitLines(_)
SplitLines(s) ==
    IF s = <<>> THEN <<>>
    ELSE LET i == Find(s, <<NL>>)
         IN IF i = 0 THEN <<s>>
            ELSE <<StripCr(SubSeq(s, 1, i - 1))>> \o SplitLines(From(s, i + 1))

\* str::split_whitespace
RECURSIVE SplitWhitespace(_)
SplitWhitespace(s) ==
    LET t == TrimStart(s)
    IN IF t = <<>> THEN <<>>
       ELSE LET ws == {i \in 1..Len(t) : IsWhitespace(t[i])}
                e == IF ws = {} THEN Len(t) + 1 ELSE MinOf(ws)
            IN <<SubSeq(t, 1, e - 1)>> \o SplitWhitespace(From(t, e))

\* [String]::join("\n")
RECURSIVE JoinLines(_)
JoinLines(ls) ==
    IF ls = <<>> THEN <<>>
    ELSE IF Len(ls) = 1 THEN ls[1]
    ELSE ls[1] \o <<NL>> \o JoinLines(Tail(ls))

\* str::repeat
RECURSIVE Repeat(_, _)
Repeat(s, n) == IF n = 0 THEN <<>> ELSE s \o Repeat(s, n - 1)

-----------------------------------------------------------------------------
(* Option<T>: <<>> is None, <<v>> is Some(v) *)

None == <<>>
Some(v) == <<v>>

-----------------------------------------------------------------------------
(* Tokens of the grammar *)

KwGraph == <<"g","r","a","p","h">>
KwSubgraph == <<"s","u","b","g","r","a","p","h">>
KwEnd == <<"e","n","d">>
ArrowSolid == <<"-","-",">">>
ArrowDashed == <<"-",".","-",">">>
Comment == <<"%","%">>

\* EdgeKind::arrow_token
arrow_token(kind) == IF kind = "Solid" THEN ArrowSolid ELSE ArrowDashed

\* Direction::as_token
as_token(dir) ==
    CASE dir = "TopDown" -> <<"T","D">>
      [] dir = "LeftRight" -> <<"L","R">>
      [] dir = "BottomTop" -> <<"B","T">>
      [] dir = "RightLeft" -> <<"R","L">>

\* parse_graph_header: [ok, direction]
parse_graph_header(line) ==
    LET parts == SplitWhitespace(line)
    IN IF parts = <<>> THEN [ok |-> FALSE, direction |-> "none"]
       ELSE IF ToLower(parts[1]) # KwGraph THEN [ok |-> FALSE, direction |-> "none"]
       ELSE LET token == ToUpper(Trim(IF Len(parts) >= 2 THEN parts[2] ELSE <<"T","D">>))
            IN CASE token \in {<<"T","D">>, <<"T","B">>} -> [ok |-> TRUE, direction |-> "TopDown"]
                 [] token = <<"B","T">> -> [ok |-> TRUE, direction |-> "BottomTop"]
                 [] token = <<"L","R">> -> [ok |-> TRUE, direction |-> "LeftRight"]
                 [] token = <<"R","L">> -> [ok |-> TRUE, direction |-> "RightLeft"]
                 [] OTHER -> [ok |-> FALSE, direction |-> "none"]

\* normalize_subgraph_id
normalize_subgraph_id(raw) ==
    LET t == Trim(raw)
        id == IF t = <<>> THEN KwSubgraph ELSE t
    IN [i \in 1..Len(id) |-> IF IsWhitespace(id[i]) THEN "_" ELSE id[i]]

\* parse_subgraph_header: [ok, id, label]
parse_subgraph_header(raw) ==
    LET trimmed == Trim(raw)
        bad == [ok |-> FALSE, id |-> <<>>, label |-> <<>>]
        start == Find(trimmed, <<"[">>)     \* 1-based; Rust's start is start - 1
    IN IF trimmed = <<>> THEN bad
       ELSE IF start # 0 /\ EndsWith(trimmed, <<"]">>) /\ start - 1 < Len(trimmed) - 1
       THEN LET id_part == Trim(SubSeq(trimmed, 1, start - 1))
                label_part == Trim(SubSeq(trimmed, start + 1, Len(trimmed) - 1))
            IN IF id_part = <<>> THEN bad
               ELSE [ok |-> TRUE, id |-> normalize_subgraph_id(id_part),
                     label |-> IF label_part = <<>> THEN id_part ELSE label_part]
       ELSE IF StartsWith(trimmed, <<"\"">>) /\ EndsWith(trimmed, <<"\"">>) /\ Len(trimmed) >= 2
       THEN LET label == Trim(SubSeq(trimmed, 2, Len(trimmed) - 1))
            IN IF label = <<>> THEN bad
               ELSE [ok |-> TRUE, id |-> normalize_subgraph_id(label), label |-> label]
       ELSE [ok |-> TRUE, id |-> normalize_subgraph_id(trimmed), label |-> trimmed]

\* NodeSpec::parse: [ok, id, label, shape]
NodeSpec_parse(raw) ==
    LET trimmed == Trim(raw)
        bad == [ok |-> FALSE, id |-> <<>>, label |-> <<>>, shape |-> "Rectangle"]
        opens == {i \in 1..Len(trimmed) : trimmed[i] \in {"[", "(", "{"}}
        id_end == IF opens = {} THEN Len(trimmed) ELSE MinOf(opens) - 1
        id == Trim(SubSeq(trimmed, 1, id_end))
        remainder == Trim(From(trimmed, id_end + 1))
        n == Len(remainder)
        parsed ==
            IF remainder = <<>> THEN <<id, "Rectangle">>
            ELSE IF StartsWith(remainder, <<"(","(">>) /\ EndsWith(remainder, <<")",")">>) /\ n >= 4
            THEN <<Trim(SubSeq(remainder, 3, n - 2)), "Circle">>
            ELSE IF StartsWith(remainder, <<"(">>) /\ EndsWith(remainder, <<")">>) /\ n >= 2
            THEN <<Trim(SubSeq(remainder, 2, n - 1)), "Stadium">>
            ELSE IF StartsWith(remainder, <<"[">>) /\ EndsWith(remainder, <<"]">>) /\ n >= 2
            THEN <<Trim(SubSeq(remainder, 2, n - 1)), "Rectangle">>
            ELSE IF StartsWith(remainder, <<"{">>) /\ EndsWith(remainder, <<"}">>) /\ n >= 2
            THEN <<Trim(SubSeq(remainder, 2, n - 1)), "Diamond">>
            ELSE <<trimmed, "Rectangle">>
    IN IF trimmed = <<>> THEN bad
       ELSE IF id = <<>> THEN bad
       ELSE [ok |-> TRUE, id |-> id,
             label |-> IF parsed[1] = <<>> THEN id ELSE parsed[1],
             shape |-> parsed[2]]

\* NodeShape::format_spec
format_spec(shape, id, label) ==
    CASE shape = "Rectangle" ->
            IF label = id THEN id ELSE id \o <<"[">> \o label \o <<"]">>
      [] shape = "Stadium" -> id \o <<"(">> \o label \o <<")">>
      [] shape = "Circle" -> id \o <<"(","(">> \o label \o <<")",")">>
      [] shape = "Diamond" -> id \o <<"{">> \o label \o <<"}">>

\* Diagram::format_node_line
format_node_line(id, node) == format_spec(node.shape, id, node.label)

\* Diagram::format_edge_line
format_edge_line(edge) ==
    IF edge.label # None
    THEN edge.from \o <<" ">> \o arrow_token(edge.kind) \o <<"|">> \o edge.label[1]
         \o <<"|", " ">> \o edge.to
    ELSE edge.from \o <<" ">> \o arrow_token(edge.kind) \o <<" ">> \o edge.to

\* edge_identifier
edge_identifier(edge) ==
    edge.from \o <<" ">> \o arrow_token(edge.kind) \o <<" ">> \o edge.to

-----------------------------------------------------------------------------
(* Diagram::parse, line by line *)

\* the empty HashMap
EmptyMap == [x \in {} |-> x]

\* SubgraphBuilder::new
SubgraphBuilder_new(id, label, ord) ==
    [id |-> id, label |-> label, nodes |-> <<>>, children |-> <<>>, order |-> ord]

\* SubgraphBuilder::into_subgraph
RECURSIVE into_subgraph(_)
into_subgraph(b) ==
    [id |-> b.id, label |-> b.label, nodes |-> b.nodes,
     children |-> [i \in 1..Len(b.children) |-> into_subgraph(b.children[i])],
     order |-> b.order]

\* insert_node_spec: first declaration wins
insert_node_spec(spec, ns, ord) ==
    IF spec.id \notin DOMAIN ns
    THEN [id |-> spec.id, inserted |-> TRUE,
          nodes |-> ns @@ (spec.id :> [label |-> spec.label, shape |-> spec.shape]),
          order |-> Append(ord, spec.id)]
    ELSE [id |-> spec.id, inserted |-> FALSE, nodes |-> ns, order |-> ord]

\* record_node_membership
record_node_membership(node_id, stack, membership) ==
    LET path == [i \in 1..Len(stack) |-> stack[i].id]
        top == Len(stack)
        has == top > 0 /\ \E i \in 1..Len(stack[top].nodes) : stack[top].nodes[i] = node_id
    IN [membership |-> [x \in DOMAIN membership \cup {node_id} |->
                            IF x = node_id THEN path ELSE membership[x]],
        stack |-> IF top > 0 /\ ~has
                  THEN [stack EXCEPT ![top].nodes = Append(@, node_id)]
                  ELSE stack]

\* the state the line parsers thread through
ParserState == [nodes |-> nodes, order |-> order, node_membership |-> node_membership,
                subgraph_stack |-> subgraph_stack]

\* the parser state with the node table and membership of one insertion
WithMembership(r, m) ==
    [nodes |-> r.nodes, order |-> r.order,
     node_membership |-> m.membership, subgraph_stack |-> m.stack]

\* the bookkeeping with the membership recorded at every mention of a node
RecordEveryMention(r, st, isNodeLine) ==
    record_node_membership(r.id, st.subgraph_stack, st.node_membership)

\* the membership bookkeeping after insert_node_spec: a node line records a known
\* node that has no membership yet also inside a subgraph, an edge operand does not
MembershipAfterInsert(r, st, isNodeLine) ==
    IF r.inserted
    THEN record_node_membership(r.id, st.subgraph_stack, st.node_membership)
    ELSE IF r.id \notin DOMAIN st.node_membership /\ st.subgraph_stack = <<>>
    THEN [membership |-> st.node_membership @@ (r.id :> <<>>), stack |-> st.subgraph_stack]
    ELSE IF r.id \notin DOMAIN st.node_membership /\ isNodeLine
    THEN record_node_membership(r.id, st.subgraph_stack, st.node_membership)
    ELSE [membership |-> st.node_membership, stack |-> st.subgraph_stack]

InsertAndRecord(r, st, isNodeLine) ==
    WithMembership(r, MembershipAfterInsert(r, st, isNodeLine))

NodeLineSpec(spec, st) ==
    IF ~spec.ok THEN [consumed |-> FALSE, st |-> st]
    ELSE [consumed |-> TRUE,
          st |-> InsertAndRecord(insert_node_spec(spec, st.nodes, st.order), st, TRUE)]

\* parse_node_line: [consumed, st]; an operand NodeSpec::parse rejects is not consumed
parse_node_line(line, st) ==
    IF Contains(line, ArrowSolid) \/ Contains(line, ArrowDashed)
    THEN [consumed |-> FALSE, st |-> st]
    ELSE NodeLineSpec(NodeSpec_parse(line), st)

InternSpec(spec, st) ==
    IF ~spec.ok THEN [ok |-> FALSE, id |-> <<>>, st |-> st]
    ELSE [ok |-> TRUE, id |-> spec.id,
          st |-> InsertAndRecord(insert_node_spec(spec, st.nodes, st.order), st, FALSE)]

\* intern_node followed by the membership bookkeeping of parse_edge_line: [ok, id, st]
intern_node(raw, st) == InternSpec(NodeSpec_parse(raw), st)

\* the split of parse_edge_line: "-.->" is tried before "-->", each at its first occurrence
EdgeSplitAt(line, d, s) ==
    IF d # 0
    THEN [found |-> TRUE, lhs |-> Trim(SubSeq(line, 1, d - 1)),
          rhs |-> Trim(From(line, d + 4)), kind |-> "Dashed"]
    ELSE IF s # 0
    THEN [found |-> TRUE, lhs |-> Trim(SubSeq(line, 1, s - 1)),
          rhs |-> Trim(From(line, s + 3)), kind |-> "Solid"]
    ELSE [found |-> FALSE, lhs |-> <<>>, rhs |-> <<>>, kind |-> "Solid"]

EdgeSplit(line) == EdgeSplitAt(line, Find(line, ArrowDashed), Find(line, ArrowSolid))

NoEdge == [from |-> <<>>, to |-> <<>>, label |-> None, kind |-> "Solid"]

EdgeBuilt(f, t, label, kind) ==
    IF ~t.ok THEN [result |-> "err", edge |-> NoEdge, st |-> f.st]
    ELSE [result |-> "edge",
          edge |-> [from |-> f.id, to |-> t.id, label |-> label, kind |-> kind],
          st |-> t.st]

EdgeTarget(f, rhs_clean, label, kind) ==
    IF ~f.ok THEN [result |-> "err", edge |-> NoEdge, st |-> f.st]
    ELSE EdgeBuilt(f, intern_node(rhs_clean, f.st), label, kind)

EdgeOperands(lhs, rhs_clean, label, kind, st) ==
    EdgeTarget(intern_node(lhs, st), rhs_clean, label, kind)

EdgeLabelAt(parts, rest, end_idx, st) ==
    IF end_idx = 0 THEN [result |-> "err", edge |-> NoEdge, st |-> st]
    ELSE EdgeOperands(parts.lhs, Trim(From(rest, end_idx + 1)),
                      Some(Trim(SubSeq(rest, 1, end_idx - 1))), parts.kind, st)

EdgeFromParts(parts, st) ==
    IF ~parts.found THEN [result |-> "none", edge |-> NoEdge, st |-> st]
    ELSE IF StartsWith(parts.rhs, <<"|">>)
    THEN EdgeLabelAt(parts, Tail(parts.rhs), Find(Tail(parts.rhs), <<"|">>), st)
    ELSE EdgeOperands(parts.lhs, parts.rhs, None, parts.kind, st)

\* parse_edge_line: [result, edge, st] with result "none" (not an edge line), "err" or "edge"
parse_edge_line(line, st) == EdgeFromParts(EdgeSplit(line), st)

\* the classification of a line by the loop of Diagram::parse
IsSubgraphLine(line) == StartsWith(line, KwSubgraph)
IsEndLine(line) == ~IsSubgraphLine(line) /\ ToLower(line) = KwEnd
IsEdgeLine(line) == ~IsSubgraphLine(line) /\ ~IsEndLine(line) /\ EdgeSplit(line).found
IsNodeLine(line) == ~IsSubgraphLine(line) /\ ~IsEndLine(line) /\ ~EdgeSplit(line).found

\* the significant lines of a definition
SignificantLines(text) ==
    LET raw == SplitLines(text)
        trimmed == [i \in 1..Len(raw) |-> Trim(raw[i])]
        Keep(l) == l # <<>> /\ ~StartsWith(l, Comment)
    IN SelectSeq(trimmed, Keep)

\* Diagram::parse up to and including the header
ParseHeader ==
    /\ pc = "header"
    /\ LET sig == SignificantLines(definition)
           h == IF sig = <<>> THEN [ok |-> FALSE, direction |-> "none"]
                ELSE parse_graph_header(sig[1])
       IN /\ pc' = IF h.ok THEN "lines" ELSE "failed"
          /\ direction' = h.direction
          /\ lines' = IF sig = <<>> THEN <<>> ELSE Tail(sig)
    /\ nodes' = EmptyMap
    /\ order' = <<>>
    /\ edges' = <<>>
    /\ node_membership' = EmptyMap
    /\ subgraph_stack' = <<>>
    /\ top_subgraphs' = <<>>
    /\ seen_subgraph_ids' = {}
    /\ subgraph_counter' = 0
    /\ subgraphs' = <<>>
    /\ skipped' = <<>>
    /\ UNCHANGED <<pass, definition, first, geomVars>>

\* a "subgraph ..." line
ParseSubgraphLine ==
    /\ pc = "lines" /\ lines # <<>> /\ IsSubgraphLine(Head(lines))
    /\ LET h == parse_subgraph_header(From(Head(lines), Len(KwSubgraph) + 1))
       IN IF ~h.ok \/ h.id \in seen_subgraph_ids
          THEN /\ pc' = "failed"
               /\ UNCHANGED <<subgraph_stack, seen_subgraph_ids, subgraph_counter>>
          ELSE /\ pc' = "lines"
               /\ seen_subgraph_ids' = seen_subgraph_ids \cup {h.id}
               /\ subgraph_stack' =
                      Append(subgraph_stack, SubgraphBuilder_new(h.id, h.label, subgraph_counter))
               /\ subgraph_counter' = subgraph_counter + 1
    /\ lines' = Tail(lines)
    /\ UNCHANGED <<pass, definition, direction, nodes, order, edges, node_membership,
                   top_subgraphs, subgraphs, skipped, first, geomVars>>

\* an "end" line
ParseEndLine ==
    /\ pc = "lines" /\ lines # <<>> /\ IsEndLine(Head(lines))
    /\ IF subgraph_stack = <<>>
       THEN /\ pc' = "failed"
            /\ UNCHANGED <<subgraph_stack, top_subgraphs>>
       ELSE LET n == Len(subgraph_stack)
                builder == subgraph_stack[n]
                popped == SubSeq(subgraph_stack, 1, n - 1)
            IN /\ pc' = "lines"
               /\ IF popped # <<>>
                  THEN /\ subgraph_stack' =
                              [popped EXCEPT ![n - 1].children = Append(@, builder)]
                       /\ UNCHANGED top_subgraphs
                  ELSE /\ subgraph_stack' = popped
                       /\ top_subgraphs' = Append(top_subgraphs, builder)
    /\ lines' = Tail(lines)
    /\ UNCHANGED <<pass, definition, direction, nodes, order, edges, node_membership,
                   seen_subgraph_ids, subgraph_counter, subgraphs, skipped, first, geomVars>>

\* a line holding an arrow
ParseEdgeLine ==
    /\ pc = "lines" /\ lines # <<>> /\ IsEdgeLine(Head(lines))
    /\ \E r \in {parse_edge_line(Head(lines), ParserState)} :
          /\ pc' = IF r.result = "err" THEN "failed" ELSE "lines"
          /\ edges' = IF r.result = "edge" THEN Append(edges, r.edge) ELSE edges
          /\ nodes' = r.st.nodes
          /\ order' = r.st.order
          /\ node_membership' = r.st.node_membership
          /\ subgraph_stack' = r.st.subgraph_stack
    /\ lines' = Tail(lines)
    /\ UNCHANGED <<pass, definition, direction, top_subgraphs, seen_subgraph_ids,
                   subgraph_counter, subgraphs, skipped, first, geomVars>>

\* any other line: a node declaration, or a line parse_node_line does not consume
ParseNodeLine ==
    /\ pc = "lines" /\ lines # <<>> /\ IsNodeLine(Head(lines))
    /\ \E r \in {parse_node_line(Head(lines), ParserState)} :
          /\ nodes' = r.st.nodes
          /\ order' = r.st.order
          /\ node_membership' = r.st.node_membership
          /\ subgraph_stack' = r.st.subgraph_stack
          /\ skipped' = IF r.consumed THEN skipped ELSE Append(skipped, Head(lines))
    /\ pc' = "lines"
    /\ lines' = Tail(lines)
    /\ UNCHANGED <<pass, definition, direction, edges, top_subgraphs, seen_subgraph_ids,
                   subgraph_counter, subgraphs, first, geomVars>>

\* ParseFinish without the test for a frame that is still open
ParseFinishUnchecked ==
    /\ pc = "lines" /\ lines = <<>>
    /\ IF DOMAIN nodes = {}
       THEN /\ pc' = "failed"
            /\ UNCHANGED subgraphs
       ELSE /\ pc' = "parsed"
            /\ subgraphs' = [i \in 1..Len(top_subgraphs) |-> into_subgraph(top_subgraphs[i])]
    /\ UNCHANGED <<pass, definition, lines, direction, nodes, order, edges, node_membership,
                   subgraph_stack, top_subgraphs, seen_subgraph_ids, subgraph_counter,
                   skipped, first, geomVars>>

\* the checks after the last line, and the Diagram returned
ParseFinish ==
    /\ pc = "lines" /\ lines = <<>>
    /\ IF subgraph_stack # <<>> \/ DOMAIN nodes = {}
       THEN /\ pc' = "failed"
            /\ UNCHANGED subgraphs
       ELSE /\ pc' = "parsed"
            /\ subgraphs' = [i \in 1..Len(top_subgraphs) |-> into_subgraph(top_subgraphs[i])]
    /\ UNCHANGED <<pass, definition, lines, direction, nodes, order, edges, node_membership,
                   subgraph_stack, top_subgraphs, seen_subgraph_ids, subgraph_counter,
                   skipped, first, geomVars>>

-----------------------------------------------------------------------------
(* Diagram::to_definition *)

RECURSIVE emit_subgraph_definition(_, _, _)
RECURSIVE EmitChildren(_, _, _)

\* emit_subgraph_definition: acc is [lines, emitted]
emit_subgraph_definition(subgraph, depth, acc) ==
    LET indent == Repeat(<<" ", " ", " ", " ">>, depth)
        inner_indent == Repeat(<<" ", " ", " ", " ">>, depth + 1)
        header == IF subgraph.label = subgraph.id THEN subgraph.id
                  ELSE subgraph.id \o <<"[">> \o subgraph.label \o <<"]">>
        direct_nodes == {subgraph.nodes[i] : i \in 1..Len(subgraph.nodes)}
        Fresh(id) == id \in direct_nodes /\ id \notin acc.emitted
        fresh == SelectSeq(order, Fresh)
        Declared(id) == id \in DOMAIN nodes
        declared == SelectSeq(fresh, Declared)
        own == [lines |-> acc.lines \o <<indent \o KwSubgraph \o <<" ">> \o header>>
                          \o [i \in 1..Len(declared) |->
                                inner_indent \o format_node_line(declared[i], nodes[declared[i]])],
                emitted |-> acc.emitted \cup {fresh[i] : i \in 1..Len(fresh)}]
        inner == EmitChildren(subgraph.children, depth + 1, own)
    IN [lines |-> Append(inner.lines, indent \o KwEnd), emitted |-> inner.emitted]

EmitChildren(children, depth, acc) ==
    IF children = <<>> THEN acc
    ELSE EmitChildren(Tail(children), depth,
                      emit_subgraph_definition(Head(children), depth, acc))

\* the loop over self.subgraphs of to_definition, a blank line between two of them
RECURSIVE EmitTopLevel(_, _)
EmitTopLevel(sgs, acc) ==
    IF sgs = <<>> THEN acc
    ELSE LET one == emit_subgraph_definition(Head(sgs), 1, acc)
             sep == IF Len(sgs) # 1 THEN [one EXCEPT !.lines = Append(@, <<>>)] ELSE one
         IN EmitTopLevel(Tail(sgs), sep)

RECURSIVE PopEmptyLines(_)
PopEmptyLines(ls) ==
    IF ls # <<>> /\ ls[Len(ls)] = <<>> THEN PopEmptyLines(SubSeq(ls, 1, Len(ls) - 1)) ELSE ls

to_definition ==
    LET head == [lines |-> <<KwGraph \o <<" ">> \o as_token(direction)>>, emitted |-> {}]
        sg == EmitTopLevel(subgraphs, head)
        Loose(id) == id \notin sg.emitted
        loose == SelectSeq(order, Loose)
        gap == IF subgraphs # <<>> /\ loose # <<>> THEN Append(sg.lines, <<>>) ELSE sg.lines
        Declared(id) == id \in DOMAIN nodes
        declared == SelectSeq(loose, Declared)
        withNodes == gap \o [i \in 1..Len(declared) |->
                                format_node_line(declared[i], nodes[declared[i]])]
        gap2 == IF edges # <<>> /\ withNodes # <<>> THEN Append(withNodes, <<>>) ELSE withNodes
        withEdges == gap2 \o [i \in 1..Len(edges) |-> format_edge_line(edges[i])]
    IN JoinLines(PopEmptyLines(withEdges)) \o <<NL>>

\* no diagram
NoDiagram ==
    [direction |-> "none", nodes |-> EmptyMap, order |-> <<>>, edges |-> <<>>,
     subgraphs |-> <<>>, node_membership |-> EmptyMap]

\* the Diagram value held by the state
TheDiagram ==
    [direction |-> direction, nodes |-> nodes, order |-> order, edges |-> edges,
     subgraphs |-> subgraphs, node_membership |-> node_membership]

\* serialize the parsed diagram and hand the text to a second parse
ToDefinition ==
    /\ pc = "parsed" /\ pass = 1
    /\ first' = TheDiagram
    /\ definition' = to_definition
    /\ pass' = 2
    /\ pc' = "header"
    /\ UNCHANGED <<lines, direction, nodes, order, edges, node_membership, subgraph_stack,
                   top_subgraphs, seen_subgraph_ids, subgraph_counter, subgraphs, skipped,
                   geomVars>>

-----------------------------------------------------------------------------
(* Diagram::remove_node and Diagram::remove_edge_by_identifier *)

\* HashMap::remove
Without(map, key) == [k \in DOMAIN map \ {key} |-> map[k]]

\* order.retain(|id| id != node_id)
RetainOthers(ids, node_id) == SelectSeq(ids, LAMBDA id : id # node_id)

\* remove_node with the edges of the node left in place
KeepEdges(es, node_id) == es

\* edges.retain(|edge| edge.from != node_id && edge.to != node_id)
RetainEdges(es, node_id) ==
    SelectSeq(es, LAMBDA edge : edge.from # node_id /\ edge.to # node_id)

\* prune_node_from_subgraphs: the subgraphs that are left
RECURSIVE prune_node_from_subgraphs(_, _)
PruneSubgraph(subgraph, node_id) ==
    [subgraph EXCEPT !.nodes = RetainOthers(@, node_id),
                     !.children = prune_node_from_subgraphs(@, node_id)]

prune_node_from_subgraphs(sgs, node_id) ==
    SelectSeq([i \in 1..Len(sgs) |-> PruneSubgraph(sgs[i], node_id)],
              LAMBDA subgraph : subgraph.nodes # <<>> \/ subgraph.children # <<>>)

\* the fields of the diagram the editing calls may write
Fields == [nodes |-> nodes, order |-> order, edges |-> edges, subgraphs |-> subgraphs,
           node_membership |-> node_membership]

\* no call yet
NoEdit == [op |-> "none", id |-> <<>>, returned |-> FALSE, before |-> <<>>]

\* a call, its argument, what it returned, and the diagram it was made on
Called(op, id, returned) == [op |-> op, id |-> id, returned |-> returned, before |-> <<Fields>>]

EditIdle == edits = 0 /\ last_edit = NoEdit

\* the ids remove_node is called with: the nodes of the diagram and an unknown id
NodeIdPool == DOMAIN nodes \cup {<<"Z">>}

\* the ids remove_edge_by_identifier is called with
EdgeIdPool ==
    {edge_identifier(edges[i]) : i \in 1..Len(edges)} \cup {<<"Z"," ","-","-",">"," ","Z">>}

\* Diagram::remove_node
RemoveNode ==
    /\ pc = "parsed" /\ pass = 1
    /\ \E node_id \in NodeIdPool :
          IF node_id \in DOMAIN nodes
          THEN /\ nodes' = Without(nodes, node_id)
               /\ order' = RetainOthers(order, node_id)
               /\ edges' = RetainEdges(edges, node_id)
               /\ node_membership' = Without(node_membership, node_id)
               /\ subgraphs' = prune_node_from_subgraphs(subgraphs, node_id)
               /\ edits' = edits + 1
               /\ last_edit' = Called("remove_node", node_id, TRUE)
          ELSE /\ last_edit' = Called("remove_node", node_id, FALSE)
               /\ UNCHANGED <<nodes, order, edges, node_membership, subgraphs, edits>>
    /\ UNCHANGED <<pc, pass, definition, lines, direction, subgraph_stack, top_subgraphs,
                   seen_subgraph_ids, subgraph_counter, skipped, first, layoutVars, routeVars,
                   renderVars, serveVars>>

\* the first edge with the identifier is taken out, the others stay
FirstMatch(es, identifier) == MinOf({i \in 1..Len(es) : edge_identifier(es[i]) = identifier})

RemoveFirstMatch(es, identifier) ==
    IF \E i \in 1..Len(es) : edge_identifier(es[i]) = identifier
    THEN SubSeq(es, 1, FirstMatch(es, identifier) - 1)
         \o SubSeq(es, FirstMatch(es, identifier) + 1, Len(es))
    ELSE es

\* edges.retain(|edge| edge_identifier(edge) != identifier)
RetainOtherEdges(es, identifier) ==
    SelectSeq(es, LAMBDA edge : edge_identifier(edge) # identifier)

\* Diagram::remove_edge_by_identifier
RemoveEdge ==
    /\ pc = "parsed" /\ pass = 1
    /\ \E edge_id \in EdgeIdPool :
          /\ edges' = RetainOtherEdges(edges, edge_id)
          /\ edits' = IF Len(edges') # Len(edges) THEN edits + 1 ELSE edits
          /\ last_edit' = Called("remove_edge_by_identifier", edge_id, Len(edges') # Len(edges))
    /\ UNCHANGED <<pc, pass, definition, lines, direction, nodes, order, node_membership,
                   subgraph_stack, top_subgraphs, seen_subgraph_ids, subgraph_counter,
                   subgraphs, skipped, first, layoutVars, routeVars,
                   renderVars, serveVars>>

-----------------------------------------------------------------------------
(* Geometry.  A coordinate is an integer number of 1/Scale pixels; every     *)
(* value the layout computes is a whole multiple of it.                      *)

\* units per pixel
Scale == 10

NODE_WIDTH == 140 * Scale
NODE_HEIGHT == 60 * Scale
NODE_SPACING == 160 * Scale
START_OFFSET == 120 * Scale

\* the margin separate_top_level_subgraphs keeps around a top-level subgraph
SUBGRAPH_SEPARATION == 140 * Scale

Min(a, b) == IF a <= b THEN a ELSE b
Max(a, b) == IF a >= b THEN a ELSE b

\* Point { x, y }
Pt(x, y) == [x |-> x, y |-> y]

\* node_rect
node_rect(center) ==
    [min_x |-> center.x - NODE_WIDTH \div 2, max_x |-> center.x + NODE_WIDTH \div 2,
     min_y |-> center.y - NODE_HEIGHT \div 2, max_y |-> center.y + NODE_HEIGHT \div 2]

\* rects_intersect_with_margin
rects_intersect_with_margin(a, b, margin) ==
    /\ (a.min_x - margin) < (b.max_x + margin)
    /\ (a.max_x + margin) > (b.min_x - margin)
    /\ (a.min_y - margin) < (b.max_y + margin)
    /\ (a.max_y + margin) > (b.min_y - margin)

\* gather_subgraph_nodes / collect_nodes_recursive
RECURSIVE gather_subgraph_nodes(_)
gather_subgraph_nodes(subgraph) ==
    {subgraph.nodes[i] : i \in 1..Len(subgraph.nodes)}
        \cup UNION {gather_subgraph_nodes(subgraph.children[i]) :
                        i \in 1..Len(subgraph.children)}

\* compute_group_bounds: expand_bounds over the positioned members
compute_group_bounds(ids, positions) ==
    LET present == ids \cap DOMAIN positions
    IN IF present = {} THEN None
       ELSE Some([min_x |-> MinOf({node_rect(positions[id]).min_x : id \in present}),
                  max_x |-> MaxOf({node_rect(positions[id]).max_x : id \in present}),
                  min_y |-> MinOf({node_rect(positions[id]).min_y : id \in present}),
                  max_y |-> MaxOf({node_rect(positions[id]).max_y : id \in present})])

\* offset_nodes
offset_nodes(positions, ids, dx, dy) ==
    [id \in DOMAIN positions |->
        IF id \in ids THEN Pt(positions[id].x + dx, positions[id].y + dy)
        ELSE positions[id]]

-----------------------------------------------------------------------------
(* Diagram::compute_auto_layout: leveling *)

\* the indegree table before the queue is filled
InitialIndegree ==
    [id \in DOMAIN nodes |-> Cardinality({i \in 1..Len(edges) : edges[i].to = id})]

\* the queue before the first pop: the nodes without incoming edge, in order
InitialQueue == SelectSeq(order, LAMBDA id : InitialIndegree[id] = 0)

\* the level of the target of an edge, were it the level of its source
SameLevel(node_level) == node_level

\* the level an edge out of a node of level node_level asks of its target
NextLevel(node_level) == node_level + 1

\* one edge out of the dequeued node without the indegree table: the target
\* is queued every time it is met
RequeueEdge(t, node_level, st) ==
    [levels |-> st.levels, indegree |-> st.indegree, queue |-> Append(st.queue, t)]

\* one edge out of the dequeued node: raise the target's level, count the edge off
RelaxEdge(t, node_level, st) ==
    [levels |-> IF st.levels[t] < NextLevel(node_level)
                THEN [st.levels EXCEPT ![t] = NextLevel(node_level)]
                ELSE st.levels,
     indegree |-> IF st.indegree[t] > 0
                  THEN [st.indegree EXCEPT ![t] = @ - 1]
                  ELSE st.indegree,
     queue |-> IF st.indegree[t] = 1 THEN Append(st.queue, t) ELSE st.queue]

\* the for loop over the edges that leave node_id, from edge i on
RECURSIVE RelaxEdges(_, _, _, _)
RelaxEdges(node_id, node_level, i, st) ==
    IF i > Len(edges) THEN st
    ELSE IF edges[i].from # node_id THEN RelaxEdges(node_id, node_level, i + 1, st)
    ELSE RelaxEdges(node_id, node_level, i + 1, RelaxEdge(edges[i].to, node_level, st))

\* the level the second pass gives an unvisited node
FallbackLevel(id, lv) ==
    LET parents == {j \in 1..Len(edges) : edges[j].to = id}
    IN IF parents = {} THEN 0
       ELSE MaxOf({lv[edges[j].from] + 1 : j \in parents})

\* the second pass over order, from position i on
RECURSIVE FallbackLevels(_, _, _)
FallbackLevels(i, seen, lv) ==
    IF i > Len(order) THEN lv
    ELSE IF order[i] \in seen THEN FallbackLevels(i + 1, seen, lv)
    ELSE FallbackLevels(i + 1, seen, [lv EXCEPT ![order[i]] = FallbackLevel(order[i], lv)])

-----------------------------------------------------------------------------
(* Diagram::compute_auto_layout: positions *)

RECURSIVE SortSet(_)
SortSet(S) == IF S = {} THEN <<>> ELSE <<MinOf(S)>> \o SortSet(S \ {MinOf(S)})

\* layers_map.into_values(): the non-empty levels in ascending order, each in order
Layers(lv) ==
    LET keys == SortSet({lv[id] : id \in DOMAIN lv})
    IN [k \in 1..Len(keys) |-> SelectSeq(order, LAMBDA id : lv[id] = keys[k])]

\* zero-based position of x in a sequence without repetition
IndexOf(seq, x) == (CHOOSE i \in 1..Len(seq) : seq[i] = x) - 1

\* the index of the layer holding id, zero-based
LayerOf(ls, id) ==
    (CHOOSE k \in 1..Len(ls) : \E i \in 1..Len(ls[k]) : ls[k][i] = id) - 1

\* the centre of the node at position idx_in_layer of layer idx, by direction
LayerPosition(dir, level_count, max_per_level, idx, layer_len, idx_in_layer) ==
    IF dir \in {"TopDown", "BottomTop"}
    THEN LET inner_width == NODE_WIDTH + NODE_SPACING * (max_per_level - 1)
             inner_height == NODE_HEIGHT + NODE_SPACING * (level_count - 1)
             vertical_span == NODE_SPACING * (level_count - 1)
             start_y == START_OFFSET + (inner_height - vertical_span) \div 2
             row_index == IF dir = "BottomTop" THEN level_count - 1 - idx ELSE idx
             span == NODE_SPACING * (layer_len - 1)
             start_x == START_OFFSET + (inner_width - span) \div 2
         IN Pt(start_x + idx_in_layer * NODE_SPACING, start_y + row_index * NODE_SPACING)
    ELSE LET inner_width == NODE_WIDTH + NODE_SPACING * (level_count - 1)
             inner_height == NODE_HEIGHT + NODE_SPACING * (max_per_level - 1)
             horizontal_span == NODE_SPACING * (level_count - 1)
             start_x == START_OFFSET + (inner_width - horizontal_span) \div 2
             column_index == IF dir = "RightLeft" THEN level_count - 1 - idx ELSE idx
             span == NODE_SPACING * (layer_len - 1)
             start_y == START_OFFSET + (inner_height - span) \div 2
         IN Pt(start_x + column_index * NODE_SPACING, start_y + idx_in_layer * NODE_SPACING)

PositionsOfLayers(ls, level_count, max_per_level) ==
    [id \in DOMAIN nodes |->
        LayerPosition(direction, level_count, max_per_level, LayerOf(ls, id),
                      Len(ls[LayerOf(ls, id) + 1]), IndexOf(ls[LayerOf(ls, id) + 1], id))]

\* the positions compute_auto_layout returns for the levels lv
compute_positions(lv) ==
    IF order = <<>> THEN EmptyMap
    ELSE PositionsOfLayers(Layers(lv), Max(Len(Layers(lv)), 1),
                           Max(MaxOf({Len(Layers(lv)[k]) : k \in 1..Len(Layers(lv))}), 1))

-----------------------------------------------------------------------------
(* Diagram::separate_top_level_subgraphs *)

ShiftRect(r, dx) ==
    [min_x |-> r.min_x + dx, max_x |-> r.max_x + dx, min_y |-> r.min_y, max_y |-> r.max_y]

\* index of the first placed rectangle the shifted bounds come too close to, 0 if none
FirstOverlap(shifted, placed) ==
    LET hits == {i \in 1..Len(placed) :
                    rects_intersect_with_margin(shifted, placed[i], SUBGRAPH_SEPARATION)}
    IN IF hits = {} THEN 0 ELSE MinOf(hits)

\* the shift the next round of the loop tries after a collision with placed[hit]
NextShift(bounds, placed, hit, required_shift) ==
    LET new_shift == Max(placed[hit].max_x + SUBGRAPH_SEPARATION - bounds.min_x,
                         required_shift)
    IN IF new_shift = required_shift THEN new_shift + SUBGRAPH_SEPARATION ELSE new_shift

\* a separation loop that never shifts
NoShift(bounds, placed, required_shift) == 0

\* the loop: the shift at which the bounds keep the margin to every placed rectangle
RECURSIVE RequiredShift(_, _, _)
RequiredShift(bounds, placed, required_shift) ==
    IF FirstOverlap(ShiftRect(bounds, required_shift), placed) = 0 THEN required_shift
    ELSE RequiredShift(bounds, placed,
            NextShift(bounds, placed,
                      FirstOverlap(ShiftRect(bounds, required_shift), placed),
                      required_shift))

PlaceGroup(ids, bounds, shift, positions, placed) ==
    [positions |-> IF shift # 0 THEN offset_nodes(positions, ids, shift, 0) ELSE positions,
     placed |-> Append(placed, ShiftRect(bounds, shift))]

SeparateGroup(ids, bounds, positions, placed) ==
    IF ids = {} \/ bounds = None THEN [positions |-> positions, placed |-> placed]
    ELSE PlaceGroup(ids, bounds[1], RequiredShift(bounds[1], placed, 0), positions, placed)

\* the body of the loop over the top-level subgraphs
SeparateOne(subgraph, positions, placed) ==
    SeparateGroup(gather_subgraph_nodes(subgraph),
                  compute_group_bounds(gather_subgraph_nodes(subgraph), positions),
                  positions, placed)

-----------------------------------------------------------------------------
(* Diagram::layout *)

NoOverrides == [nodes |-> EmptyMap, edges |-> EmptyMap]

\* final positions that take nothing from the overrides
IgnoreOverrides(auto, ov) == auto

\* final_positions: the auto positions, with the override of every known id
MergeOverrides(auto, ov) ==
    [id \in DOMAIN auto |-> IF id \in DOMAIN ov.nodes THEN ov.nodes[id] ELSE auto[id]]

LayoutIdle ==
    /\ levels = EmptyMap
    /\ indegree = EmptyMap
    /\ queue = <<>>
    /\ visited = {}
    /\ auto_positions = EmptyMap
    /\ sg_index = 0
    /\ placed_bounds = <<>>
    /\ final_positions = EmptyMap

\* layout is called on the parsed diagram: compute_auto_layout starts
LayoutStart ==
    /\ pc = "parsed" /\ pass = 1
    /\ pc' = "leveling"
    /\ levels' = [id \in DOMAIN nodes |-> 0]
    /\ indegree' = InitialIndegree
    /\ queue' = InitialQueue
    /\ visited' = {}
    /\ UNCHANGED <<parseVarsButPc, editVars, serveVars, renderVars, routeVars, overrides, auto_positions, sg_index, placed_bounds,
                   final_positions>>

\* one round of the while loop: pop a node and relax its outgoing edges
LevelStep ==
    /\ pc = "leveling" /\ queue # <<>>
    /\ visited' = visited \cup {Head(queue)}
    /\ \E st \in {RelaxEdges(Head(queue), levels[Head(queue)], 1,
                             [levels |-> levels, indegree |-> indegree,
                              queue |-> Tail(queue)])} :
          /\ levels' = st.levels
          /\ indegree' = st.indegree
          /\ queue' = st.queue
    /\ UNCHANGED <<pc, parseVarsButPc, editVars, serveVars, renderVars, routeVars, overrides, auto_positions, sg_index, placed_bounds,
                   final_positions>>

\* the queue has run dry: the second pass, if a node was never dequeued
LevelFallback ==
    /\ pc = "leveling" /\ queue = <<>>
    /\ pc' = "leveled"
    /\ levels' = IF Cardinality(visited) # Cardinality(DOMAIN nodes)
                 THEN FallbackLevels(1, visited, levels)
                 ELSE levels
    /\ UNCHANGED <<parseVarsButPc, editVars, serveVars, renderVars, routeVars, overrides, indegree, queue, visited, auto_positions,
                   sg_index, placed_bounds, final_positions>>

\* the layers and the positions of their nodes
AssignPositions ==
    /\ pc = "leveled"
    /\ pc' = "separate"
    /\ auto_positions' = compute_positions(levels)
    /\ sg_index' = 1
    /\ placed_bounds' = <<>>
    /\ UNCHANGED <<parseVarsButPc, editVars, serveVars, renderVars, routeVars, overrides, levels, indegree, queue, visited,
                   final_positions>>

\* separate_top_level_subgraphs: the next top-level subgraph
SeparateSubgraph ==
    /\ pc = "separate" /\ sg_index <= Len(subgraphs)
    /\ \E r \in {SeparateOne(subgraphs[sg_index], auto_positions, placed_bounds)} :
          /\ auto_positions' = r.positions
          /\ placed_bounds' = r.placed
    /\ sg_index' = sg_index + 1
    /\ UNCHANGED <<pc, parseVarsButPc, editVars, serveVars, renderVars, routeVars, overrides, levels, indegree, queue, visited,
                   final_positions>>

\* final_positions: the clone of the auto positions with the node overrides applied
ApplyOverrides ==
    /\ pc = "separate" /\ sg_index > Len(subgraphs)
    /\ pc' = "positioned"
    /\ final_positions' = MergeOverrides(auto_positions, overrides)
    /\ UNCHANGED <<parseVarsButPc, editVars, serveVars, renderVars, routeVars, overrides, levels, indegree, queue, visited,
                   auto_positions, sg_index, placed_bounds>>

-----------------------------------------------------------------------------
(* Routing constants.  They are defined in the crate root; distances are in  *)
(* units of 1/Scale pixel.                                                   *)

EDGE_COLLISION_MARGIN == 6 * Scale
EDGE_COLLISION_MAX_ITER == 6
EDGE_BIDIRECTIONAL_OFFSET == 28 * Scale
EDGE_BIDIRECTIONAL_STUB == 48 * Scale
EDGE_BIDIRECTIONAL_OFFSET_STEP == 14 * Scale
EDGE_BIDIRECTIONAL_STUB_STEP == 14 * Scale
EDGE_SINGLE_OFFSET == 32 * Scale
EDGE_SINGLE_STUB == 32 * Scale
EDGE_SINGLE_OFFSET_STEP == 16 * Scale
EDGE_SINGLE_STUB_STEP == 16 * Scale
EDGE_ARROW_EXTENSION == 1 * Scale
EDGE_LABEL_CHAR_WIDTH == (74 * Scale) \div 10
EDGE_LABEL_HORIZONTAL_PADDING == 16 * Scale
EDGE_LABEL_VERTICAL_PADDING == 12 * Scale
EDGE_LABEL_LINE_HEIGHT == 16 * Scale
EDGE_LABEL_MIN_WIDTH == 36 * Scale
EDGE_LABEL_MIN_HEIGHT == 28 * Scale
EDGE_LABEL_VERTICAL_OFFSET == 10 * Scale

-----------------------------------------------------------------------------
(* f32 arithmetic at the resolution of the model *)

Abs(x) == IF x < 0 THEN -x ELSE x

Sign(x) == IF x > 0 THEN 1 ELSE IF x < 0 THEN -1 ELSE 0

\* a / b rounded to the nearest unit
RoundDiv(a, b) ==
    IF (a < 0) = (b < 0)
    THEN (2 * Abs(a) + Abs(b)) \div (2 * Abs(b))
    ELSE -((2 * Abs(a) + Abs(b)) \div (2 * Abs(b)))

\* the largest r in lo..hi with r * r <= n
RECURSIVE SqrtSearch(_, _, _)
SqrtSearch(n, lo, hi) ==
    IF lo >= hi THEN lo
    ELSE IF ((lo + hi + 1) \div 2) * ((lo + hi + 1) \div 2) <= n
    THEN SqrtSearch(n, (lo + hi + 1) \div 2, hi)
    ELSE SqrtSearch(n, lo, (lo + hi + 1) \div 2 - 1)

\* f32::sqrt, rounded to the nearest unit
SqrtFrom(n, r) == IF n - r * r > r THEN r + 1 ELSE r
Sqrt(n) == SqrtFrom(n, SqrtSearch(n, 0, 46340))

\* (dx * dx + dy * dy).sqrt()
Distance(a, b) == Sqrt((b.x - a.x) * (b.x - a.x) + (b.y - a.y) * (b.y - a.y))

\* orientation: the cross product of b - a and c - a
orientation(a, b, c) == (b.x - a.x) * (c.y - a.y) - (b.y - a.y) * (c.x - a.x)

\* points_close: closer than 0.01 px, which is below the resolution
points_close(a, b) == a = b

\* on_segment: c lies in the bounding box of a and b
on_segment(a, b, c) ==
    /\ c.x >= Min(a.x, b.x) /\ c.x <= Max(a.x, b.x)
    /\ c.y >= Min(a.y, b.y) /\ c.y <= Max(a.y, b.y)

\* segments_intersect
segments_intersect(a1, a2, b1, b2) ==
    \/ /\ Sign(orientation(a1, a2, b1)) * Sign(orientation(a1, a2, b2)) < 0
       /\ Sign(orientation(b1, b2, a1)) * Sign(orientation(b1, b2, a2)) < 0
    \/ orientation(a1, a2, b1) = 0 /\ on_segment(a1, a2, b1)
    \/ orientation(a1, a2, b2) = 0 /\ on_segment(a1, a2, b2)
    \/ orientation(b1, b2, a1) = 0 /\ on_segment(b1, b2, a1)
    \/ orientation(b1, b2, a2) = 0 /\ on_segment(b1, b2, a2)

\* shares_endpoint
shares_endpoint(a1, a2, b1, b2) ==
    points_close(a1, b1) \/ points_close(a1, b2) \/ points_close(a2, b1)
        \/ points_close(a2, b2)

\* routes_intersect
routes_intersect(a, b) ==
    \E i \in 1..(Len(a) - 1), j \in 1..(Len(b) - 1) :
        /\ ~shares_endpoint(a[i], a[i + 1], b[j], b[j + 1])
        /\ segments_intersect(a[i], a[i + 1], b[j], b[j + 1])

\* count_route_intersections: the routed edges whose route the route crosses
count_route_intersections(route, existing_routes) ==
    Cardinality({id \in DOMAIN existing_routes : routes_intersect(route, existing_routes[id])})

\* Rect::inflate
inflate(r, amount) ==
    [min_x |-> r.min_x - amount, max_x |-> r.max_x + amount,
     min_y |-> r.min_y - amount, max_y |-> r.max_y + amount]

\* Rect::intersects
intersects(a, b) ==
    a.min_x <= b.max_x /\ a.max_x >= b.min_x /\ a.min_y <= b.max_y /\ a.max_y >= b.min_y

\* Rect::contains
contains(r, point) ==
    point.x >= r.min_x /\ point.x <= r.max_x /\ point.y >= r.min_y /\ point.y <= r.max_y

\* Rect::intersects_segment
intersects_segment(r, a, b) ==
    \/ contains(r, a)
    \/ contains(r, b)
    \/ segments_intersect(a, b, Pt(r.min_x, r.min_y), Pt(r.max_x, r.min_y))
    \/ segments_intersect(a, b, Pt(r.max_x, r.min_y), Pt(r.max_x, r.max_y))
    \/ segments_intersect(a, b, Pt(r.max_x, r.max_y), Pt(r.min_x, r.max_y))
    \/ segments_intersect(a, b, Pt(r.min_x, r.max_y), Pt(r.min_x, r.min_y))

\* NodeBoundary::new
NodeBoundary_new(center, shape) ==
    [center |-> center, shape |-> shape, rect |-> node_rect(center)]

\* the node_bounds table of compute_routes
NodeBounds(positions) ==
    [id \in DOMAIN positions |-> NodeBoundary_new(positions[id], nodes[id].shape)]

\* build_route
build_route(start, middle, end) == <<start>> \o middle \o <<end>>

\* Vec::dedup_by(points_close): drop a point that repeats the one kept before it
RECURSIVE Dedup(_, _, _)
Dedup(route, i, kept) ==
    IF i > Len(route) THEN kept
    ELSE IF kept # <<>> /\ points_close(route[i], kept[Len(kept)])
    THEN Dedup(route, i + 1, kept)
    ELSE Dedup(route, i + 1, Append(kept, route[i]))

RemoveAt(seq, idx) == SubSeq(seq, 1, idx - 1) \o SubSeq(seq, idx + 1, Len(seq))

\* the while loop of simplify_route: drop interior points that lie on the segment
\* between their neighbours (idx is one-based)
RECURSIVE DropCollinear(_, _)
DropCollinear(route, idx) ==
    IF idx + 1 > Len(route) THEN route
    ELSE IF /\ orientation(route[idx - 1], route[idx], route[idx + 1]) = 0
            /\ on_segment(route[idx - 1], route[idx + 1], route[idx])
    THEN DropCollinear(RemoveAt(route, idx), idx)
    ELSE DropCollinear(route, idx + 1)

SimplifyDeduped(route) == IF Len(route) < 3 THEN route ELSE DropCollinear(route, 2)

\* simplify_route
simplify_route(route) == SimplifyDeduped(Dedup(route, 1, <<>>))

-----------------------------------------------------------------------------
(* Edge labels *)

RECURSIVE SumX(_, _)
SumX(points, i) == IF i > Len(points) THEN 0 ELSE points[i].x + SumX(points, i + 1)

RECURSIVE SumY(_, _)
SumY(points, i) == IF i > Len(points) THEN 0 ELSE points[i].y + SumY(points, i + 1)

\* centroid
centroid(points) ==
    IF points = <<>> THEN Pt(0, 0)
    ELSE Pt(RoundDiv(SumX(points, 1), Len(points)), RoundDiv(SumY(points, 1), Len(points)))

\* squared distance: the order of distances is the order of their squares
Dist2(a, b) == (a.x - b.x) * (a.x - b.x) + (a.y - b.y) * (a.y - b.y)

\* the first of the points that is nearest to c
Nearest(points, c) ==
    points[MinOf({i \in 1..Len(points) :
                    \A j \in 1..Len(points) : Dist2(points[i], c) <= Dist2(points[j], c)})]

\* label_center_for_route
label_center_for_route(route) ==
    IF route = <<>> THEN Pt(0, -EDGE_LABEL_VERTICAL_OFFSET)
    ELSE IF Len(route) <= 2
    THEN Pt(centroid(route).x, centroid(route).y - EDGE_LABEL_VERTICAL_OFFSET)
    ELSE IF Len(route) = 3 THEN route[2]
    ELSE Nearest(SubSeq(route, 2, Len(route) - 1), centroid(route))

\* measure_label_box for a label of one line
measure_label_box(label) ==
    [width |-> Max(EDGE_LABEL_CHAR_WIDTH * Max(Len(label), 1) + EDGE_LABEL_HORIZONTAL_PADDING,
                   EDGE_LABEL_MIN_WIDTH),
     height |-> Max(EDGE_LABEL_LINE_HEIGHT + EDGE_LABEL_VERTICAL_PADDING,
                    EDGE_LABEL_MIN_HEIGHT)]

RectAround(center, box) ==
    [min_x |-> center.x - box.width \div 2, max_x |-> center.x + box.width \div 2,
     min_y |-> center.y - box.height \div 2, max_y |-> center.y + box.height \div 2]

\* label_rect_for_route: None for an edge without label
label_rect_for_route(edge, route) ==
    IF edge.label = None THEN None
    ELSE Some(RectAround(label_center_for_route(route), measure_label_box(edge.label[1])))

-----------------------------------------------------------------------------
(* Collision tests and the score of a route *)

\* the ids of the nodes other than the endpoints of the edge
ThirdParties(edge, node_bounds) == DOMAIN node_bounds \ {edge.from, edge.to}

\* route_collides_with_nodes
route_collides_with_nodes(edge, route, node_bounds) ==
    \E i \in 1..(Len(route) - 1), id \in ThirdParties(edge, node_bounds) :
        intersects_segment(inflate(node_bounds[id].rect, EDGE_COLLISION_MARGIN),
                           route[i], route[i + 1])

LabelHitsNode(label_rect, node_bounds) ==
    /\ label_rect # None
    /\ \E id \in DOMAIN node_bounds :
          intersects(inflate(label_rect[1], EDGE_COLLISION_MARGIN), node_bounds[id].rect)

\* label_collides_with_nodes
label_collides_with_nodes(edge, route, node_bounds) ==
    LabelHitsNode(label_rect_for_route(edge, route), node_bounds)

\* the score (blocks a node, blocks its label, crossings of routed edges)
Metric(edge, route, node_bounds, existing_routes) ==
    << IF route_collides_with_nodes(edge, route, node_bounds) THEN 1 ELSE 0,
       IF label_collides_with_nodes(edge, route, node_bounds) THEN 1 ELSE 0,
       count_route_intersections(route, existing_routes) >>

\* the order of tuples
LexLess(m, n) ==
    \/ m[1] < n[1]
    \/ m[1] = n[1] /\ m[2] < n[2]
    \/ m[1] = n[1] /\ m[2] = n[2] /\ m[3] < n[3]

Perfect == <<0, 0, 0>>

-----------------------------------------------------------------------------
(* Offset routes *)

BidirPoints(from, to, offset_vec, stub_vec, stub_clamped) ==
    IF stub_clamped <= 0
    THEN << Pt((from.x + to.x) \div 2 + offset_vec.x, (from.y + to.y) \div 2 + offset_vec.y) >>
    ELSE << Pt(from.x + stub_vec.x + offset_vec.x, from.y + stub_vec.y + offset_vec.y),
            Pt((from.x + to.x) \div 2 + offset_vec.x, (from.y + to.y) \div 2 + offset_vec.y),
            Pt(to.x - stub_vec.x + offset_vec.x, to.y - stub_vec.y + offset_vec.y) >>

BidirAtDistance(from, to, offset, stub_clamped, normal_sign, distance) ==
    BidirPoints(from, to,
                Pt(RoundDiv(-(to.y - from.y) * offset * normal_sign, distance),
                   RoundDiv((to.x - from.x) * offset * normal_sign, distance)),
                Pt(RoundDiv((to.x - from.x) * stub_clamped, distance),
                   RoundDiv((to.y - from.y) * stub_clamped, distance)),
                stub_clamped)

\* generate_bidir_points with the side of the offset ignored
OneSidedPoints(from, to, offset, stub, normal_sign) ==
    IF Distance(from, to) = 0 THEN <<>>
    ELSE BidirAtDistance(from, to, offset,
                         Max(Min(stub, Distance(from, to) \div 2 - Scale), 0),
                         1, Distance(from, to))

\* generate_bidir_points
generate_bidir_points(from, to, offset, stub, normal_sign) ==
    IF Distance(from, to) = 0 THEN <<>>
    ELSE BidirAtDistance(from, to, offset,
                         Max(Min(stub, Distance(from, to) \div 2 - Scale), 0),
                         normal_sign, Distance(from, to))

Reverse(seq) == [i \in 1..Len(seq) |-> seq[Len(seq) + 1 - i]]

\* max_offset and max_stub
MaxOffset(distance) == distance \div 2 - EDGE_COLLISION_MARGIN

\* offset or stub of an attempt
Stepped(base, attempt, step, max) == Max(Min(base + attempt * step, max), base)

\* resolve_bidirectional_pair: the collision test of one attempt
PairCollision(forward_label, backward_label, from_rect, to_rect) ==
    \/ /\ forward_label # None
       /\ intersects(inflate(forward_label[1], EDGE_COLLISION_MARGIN), from_rect)
            \/ intersects(inflate(forward_label[1], EDGE_COLLISION_MARGIN), to_rect)
    \/ /\ backward_label # None
       /\ intersects(inflate(backward_label[1], EDGE_COLLISION_MARGIN), from_rect)
            \/ intersects(inflate(backward_label[1], EDGE_COLLISION_MARGIN), to_rect)
    \/ /\ forward_label # None /\ backward_label # None
       /\ intersects(inflate(forward_label[1], EDGE_COLLISION_MARGIN),
                     inflate(backward_label[1], EDGE_COLLISION_MARGIN))

PairAttemptCollides(from, to, forward_edge, backward_edge, forward_points, backward_points) ==
    PairCollision(label_rect_for_route(forward_edge, build_route(from, forward_points, to)),
                  label_rect_for_route(backward_edge, build_route(to, backward_points, from)),
                  inflate(node_rect(from), EDGE_COLLISION_MARGIN),
                  inflate(node_rect(to), EDGE_COLLISION_MARGIN))

\* resolve_bidirectional_pair: the attempts from attempt on
RECURSIVE ResolveFrom(_, _, _, _, _, _, _, _)
ResolveFrom(from, to, forward_edge, backward_edge, base_offset, base_stub, max, attempt) ==
    IF \/ attempt = EDGE_COLLISION_MAX_ITER
       \/ ~PairAttemptCollides(from, to, forward_edge, backward_edge,
             generate_bidir_points(from, to,
                 Stepped(base_offset, attempt, EDGE_BIDIRECTIONAL_OFFSET_STEP, max),
                 Stepped(base_stub, attempt, EDGE_BIDIRECTIONAL_STUB_STEP, max), 1),
             Reverse(generate_bidir_points(from, to,
                 Stepped(base_offset, attempt, EDGE_BIDIRECTIONAL_OFFSET_STEP, max),
                 Stepped(base_stub, attempt, EDGE_BIDIRECTIONAL_STUB_STEP, max), -1)))
       \/ /\ Stepped(base_offset, attempt, EDGE_BIDIRECTIONAL_OFFSET_STEP, max) = max
          /\ Stepped(base_stub, attempt, EDGE_BIDIRECTIONAL_STUB_STEP, max) = max
    THEN [forward |-> generate_bidir_points(from, to,
                 Stepped(base_offset, attempt, EDGE_BIDIRECTIONAL_OFFSET_STEP, max),
                 Stepped(base_stub, attempt, EDGE_BIDIRECTIONAL_STUB_STEP, max), 1),
          backward |-> Reverse(generate_bidir_points(from, to,
                 Stepped(base_offset, attempt, EDGE_BIDIRECTIONAL_OFFSET_STEP, max),
                 Stepped(base_stub, attempt, EDGE_BIDIRECTIONAL_STUB_STEP, max), -1))]
    ELSE ResolveFrom(from, to, forward_edge, backward_edge, base_offset, base_stub, max,
                     attempt + 1)

\* resolve_bidirectional_pair, for endpoints far enough apart
resolve_bidirectional_pair(from, to, forward_edge, backward_edge) ==
    ResolveFrom(from, to, forward_edge, backward_edge,
                Min(Min(Distance(from, to) \div 4, EDGE_BIDIRECTIONAL_OFFSET),
                    MaxOffset(Distance(from, to))),
                Min(Min(Distance(from, to) \div 4, EDGE_BIDIRECTIONAL_STUB),
                    MaxOffset(Distance(from, to))),
                MaxOffset(Distance(from, to)), 0)

-----------------------------------------------------------------------------
(* compute_routes: the points pre-assigned to bidirectional pairs *)

\* the characters of the identifiers, in the order of their code points
CodeOrder ==
    <<"0","1","2","3","4","5","6","7","8","9",
      "A","B","C","D","E","F","G","H","I","J","K","L","M",
      "N","O","P","Q","R","S","T","U","V","W","X","Y","Z",
      "a","b","c","d","e","f","g","h","i","j","k","l","m",
      "n","o","p","q","r","s","t","u","v","w","x","y","z">>

CodeOf(c) == CHOOSE i \in 1..Len(CodeOrder) : CodeOrder[i] = c

\* String comparison: s > t
RECURSIVE StrGreater(_, _)
StrGreater(s, t) ==
    IF s = <<>> THEN FALSE
    ELSE IF t = <<>> THEN TRUE
    ELSE IF Head(s) # Head(t) THEN CodeOf(Head(s)) > CodeOf(Head(t))
    ELSE StrGreater(Tail(s), Tail(t))

\* has_override
has_override(ov, edge_idx) == edge_identifier(edges[edge_idx]) \in DOMAIN ov.edges

\* the indices of the edges from a to b, in edge order
EdgesBetween(a, b) ==
    SelectSeq([i \in 1..Len(edges) |-> i],
              LAMBDA i : edges[i].from = a /\ edges[i].to = b)

\* the checks compute_routes makes before it offsets the edges of a pair
PairFarEnough(from, to) ==
    /\ Distance(from, to) > 0
    /\ MaxOffset(Distance(from, to)) > 0
    /\ Min(Min(Distance(from, to) \div 4, EDGE_BIDIRECTIONAL_OFFSET),
           MaxOffset(Distance(from, to))) > 0
    /\ Min(Min(Distance(from, to) \div 4, EDGE_BIDIRECTIONAL_STUB),
           MaxOffset(Distance(from, to))) > 0

\* the offset of the i-th (zero-based) edge of one direction beyond the first pair
ExtraOffset(distance, i) ==
    Max(Min(Min(Min(distance \div 4, EDGE_BIDIRECTIONAL_OFFSET), MaxOffset(distance)) * (1 + i),
            MaxOffset(distance)),
        Min(Min(distance \div 4, EDGE_BIDIRECTIONAL_OFFSET), MaxOffset(distance)))

ExtraStub(distance) ==
    Min(Min(Min(distance \div 4, EDGE_BIDIRECTIONAL_STUB), MaxOffset(distance)),
        MaxOffset(distance))

\* the points of edge edge_idx, the i-th (zero-based) of its direction in the pair (a, b)
PairPoints(ov, edge_idx, i, is_forward, from, to, forward, backward) ==
    IF i = 0 /\ ~has_override(ov, forward[1]) /\ ~has_override(ov, backward[1])
    THEN IF is_forward
         THEN Some(resolve_bidirectional_pair(from, to, edges[forward[1]],
                                              edges[backward[1]]).forward)
         ELSE Some(resolve_bidirectional_pair(from, to, edges[forward[1]],
                                              edges[backward[1]]).backward)
    ELSE IF has_override(ov, edge_idx) THEN None
    ELSE IF is_forward
    THEN Some(generate_bidir_points(from, to, ExtraOffset(Distance(from, to), i),
                                    ExtraStub(Distance(from, to)), 1))
    ELSE Some(Reverse(generate_bidir_points(from, to, ExtraOffset(Distance(from, to), i),
                                            ExtraStub(Distance(from, to)), -1)))

PairEntry(positions, ov, edge_idx, a, b, is_forward) ==
    IF \/ EdgesBetween(a, b) = <<>> \/ EdgesBetween(b, a) = <<>>
       \/ ~PairFarEnough(positions[a], positions[b])
    THEN None
    ELSE PairPoints(ov, edge_idx,
                    IndexOf(IF is_forward THEN EdgesBetween(a, b) ELSE EdgesBetween(b, a),
                            edge_idx),
                    is_forward, positions[a], positions[b],
                    EdgesBetween(a, b), EdgesBetween(b, a))

\* auto_points.get(edge_idx): None, or the points pre-assigned to the edge
auto_points(positions, ov, edge_idx) ==
    IF edges[edge_idx].from = edges[edge_idx].to THEN None
    ELSE IF StrGreater(edges[edge_idx].from, edges[edge_idx].to)
    THEN PairEntry(positions, ov, edge_idx, edges[edge_idx].to, edges[edge_idx].from, FALSE)
    ELSE PairEntry(positions, ov, edge_idx, edges[edge_idx].from, edges[edge_idx].to, TRUE)

-----------------------------------------------------------------------------
(* adjust_edge_for_conflicts *)

\* the last attempt of the loop over the attempts of one normal sign
RECURSIVE LastAttempt(_, _, _, _)
LastAttempt(base_offset, base_stub, max, attempt) ==
    IF \/ attempt = EDGE_COLLISION_MAX_ITER
       \/ /\ Stepped(base_offset, attempt, EDGE_SINGLE_OFFSET_STEP, max) = max
          /\ Stepped(base_stub, attempt, EDGE_SINGLE_STUB_STEP, max) = max
    THEN attempt
    ELSE LastAttempt(base_offset, base_stub, max, attempt + 1)

\* the candidates of one normal sign, in the order of the attempts
NormalCandidates(from, to, base_offset, base_stub, max, normal_sign) ==
    [k \in 1..(LastAttempt(base_offset, base_stub, max, 0) + 1) |->
        generate_bidir_points(from, to,
            Stepped(base_offset, k - 1, EDGE_SINGLE_OFFSET_STEP, max),
            Stepped(base_stub, k - 1, EDGE_SINGLE_STUB_STEP, max), normal_sign)]

\* generate_axis_detours
generate_axis_detours(from, to) ==
    (IF Abs(from.x - to.x) > NODE_WIDTH \div 2
     THEN << << Pt(from.x, Min(from.y, to.y) - (NODE_HEIGHT + EDGE_COLLISION_MARGIN * 4)),
                Pt(to.x, Min(from.y, to.y) - (NODE_HEIGHT + EDGE_COLLISION_MARGIN * 4)) >>,
             << Pt(from.x, Max(from.y, to.y) + (NODE_HEIGHT + EDGE_COLLISION_MARGIN * 4)),
                Pt(to.x, Max(from.y, to.y) + (NODE_HEIGHT + EDGE_COLLISION_MARGIN * 4)) >> >>
     ELSE <<>>)
    \o
    (IF Abs(from.y - to.y) > NODE_HEIGHT \div 2
     THEN << << Pt(Min(from.x, to.x) - (NODE_WIDTH + EDGE_COLLISION_MARGIN * 4), from.y),
                Pt(Min(from.x, to.x) - (NODE_WIDTH + EDGE_COLLISION_MARGIN * 4), to.y) >>,
             << Pt(Max(from.x, to.x) + (NODE_WIDTH + EDGE_COLLISION_MARGIN * 4), from.y),
                Pt(Max(from.x, to.x) + (NODE_WIDTH + EDGE_COLLISION_MARGIN * 4), to.y) >> >>
     ELSE <<>>)

\* the candidates adjust_edge_for_conflicts scores, in the order it scores them
AdjustCandidates(from, to, base_offset, base_stub, max) ==
    NormalCandidates(from, to, base_offset, base_stub, max, 1)
        \o NormalCandidates(from, to, base_offset, base_stub, max, -1)
        \o generate_axis_detours(from, to)

\* the loop of evaluate_candidate_route with a candidate taken when it scores
\* no worse than the best so far
RECURSIVE EvaluateLatest(_, _, _, _, _, _, _, _, _)
EvaluateLatest(edge, from, to, node_bounds, existing_routes, cands, k, best_metric, best_points) ==
    IF k > Len(cands) THEN best_points
    ELSE IF ~LexLess(best_metric,
                     Metric(edge, build_route(from, cands[k], to), node_bounds, existing_routes))
    THEN IF Metric(edge, build_route(from, cands[k], to), node_bounds, existing_routes) = Perfect
         THEN Some(cands[k])
         ELSE EvaluateLatest(edge, from, to, node_bounds, existing_routes, cands, k + 1,
                             Metric(edge, build_route(from, cands[k], to), node_bounds,
                                    existing_routes),
                             Some(cands[k]))
    ELSE EvaluateLatest(edge, from, to, node_bounds, existing_routes, cands, k + 1,
                        best_metric, best_points)

\* evaluate_candidate_route over the candidates from k on: the best points so far,
\* returned at once when a candidate scores (0, 0, 0)
RECURSIVE EvaluateFrom(_, _, _, _, _, _, _, _, _)
EvaluateFrom(edge, from, to, node_bounds, existing_routes, cands, k, best_metric, best_points) ==
    IF k > Len(cands) THEN best_points
    ELSE IF LexLess(Metric(edge, build_route(from, cands[k], to), node_bounds, existing_routes),
                    best_metric)
    THEN IF Metric(edge, build_route(from, cands[k], to), node_bounds, existing_routes) = Perfect
         THEN Some(cands[k])
         ELSE EvaluateFrom(edge, from, to, node_bounds, existing_routes, cands, k + 1,
                           Metric(edge, build_route(from, cands[k], to), node_bounds,
                                  existing_routes),
                           Some(cands[k]))
    ELSE EvaluateFrom(edge, from, to, node_bounds, existing_routes, cands, k + 1,
                      best_metric, best_points)

\* base_offset and base_stub of adjust_edge_for_conflicts
SingleBase(distance, base_node_collision, cap) ==
    IF base_node_collision THEN Min(distance \div 4, MaxOffset(distance))
    ELSE Min(Min(distance \div 4, MaxOffset(distance)), cap)

\* adjust_edge_for_conflicts: None, or the interior points of the adjusted route
adjust_edge_for_conflicts(from, to, edge, node_bounds, existing_routes, base_metric) ==
    IF \/ base_metric = Perfect
       \/ Distance(from, to) = 0
       \/ MaxOffset(Distance(from, to)) <= 0
       \/ SingleBase(Distance(from, to), base_metric[1] = 1, EDGE_SINGLE_OFFSET) <= 0
       \/ SingleBase(Distance(from, to), base_metric[1] = 1, EDGE_SINGLE_STUB) <= 0
    THEN None
    ELSE EvaluateFrom(edge, from, to, node_bounds, existing_routes,
            AdjustCandidates(from, to,
                SingleBase(Distance(from, to), base_metric[1] = 1, EDGE_SINGLE_OFFSET),
                SingleBase(Distance(from, to), base_metric[1] = 1, EDGE_SINGLE_STUB),
                MaxOffset(Distance(from, to))),
            1, base_metric, None)

-----------------------------------------------------------------------------
(* detour_route_for_collisions *)

\* the route with a two-point jog between route[segment_idx] and route[segment_idx + 1]
WithDetour(route, segment_idx, p, q) ==
    simplify_route(SubSeq(route, 1, segment_idx) \o <<p, q>>
                       \o SubSeq(route, segment_idx + 1, Len(route)))

\* the four jogs around one node: above, below, left, right
NodeDetours(route, segment_idx, a, b, inflated, clearance) ==
    << WithDetour(route, segment_idx, Pt(a.x, inflated.min_y - clearance),
                  Pt(b.x, inflated.min_y - clearance)),
       WithDetour(route, segment_idx, Pt(a.x, inflated.max_y + clearance),
                  Pt(b.x, inflated.max_y + clearance)),
       WithDetour(route, segment_idx, Pt(inflated.min_x - clearance, a.y),
                  Pt(inflated.min_x - clearance, b.y)),
       WithDetour(route, segment_idx, Pt(inflated.max_x + clearance, a.y),
                  Pt(inflated.max_x + clearance, b.y)) >>

\* the jogs of one segment around the nodes it crosses, the nodes taken in the
\* iteration order of the node_bounds map, from position j of that order on
RECURSIVE SegmentDetours(_, _, _, _, _, _)
SegmentDetours(edge, route, segment_idx, node_bounds, iteration_order, j) ==
    IF j > Len(iteration_order) THEN <<>>
    ELSE IF \/ iteration_order[j] \in {edge.from, edge.to}
            \/ ~intersects_segment(inflate(node_bounds[iteration_order[j]].rect,
                                           EDGE_COLLISION_MARGIN),
                                   route[segment_idx], route[segment_idx + 1])
    THEN SegmentDetours(edge, route, segment_idx, node_bounds, iteration_order, j + 1)
    ELSE NodeDetours(route, segment_idx, route[segment_idx], route[segment_idx + 1],
                     inflate(node_bounds[iteration_order[j]].rect, EDGE_COLLISION_MARGIN),
                     EDGE_COLLISION_MARGIN * 2 + 8 * Scale)
         \o SegmentDetours(edge, route, segment_idx, node_bounds, iteration_order, j + 1)

\* all candidates, in the order detour_route_for_collisions scores them
RECURSIVE DetourCandidates(_, _, _, _, _)
DetourCandidates(edge, route, node_bounds, iteration_order, segment_idx) ==
    IF segment_idx > Len(route) - 1 THEN <<>>
    ELSE SegmentDetours(edge, route, segment_idx, node_bounds, iteration_order, 1)
         \o DetourCandidates(edge, route, node_bounds, iteration_order, segment_idx + 1)

\* the loop of detour_route_for_collisions with a candidate taken when it
\* scores no worse than the best so far
RECURSIVE PickLatest(_, _, _, _, _, _, _)
PickLatest(edge, node_bounds, existing_routes, cands, k, best_metric, best_route) ==
    IF k > Len(cands) THEN best_route
    ELSE IF ~LexLess(best_metric, Metric(edge, cands[k], node_bounds, existing_routes))
    THEN IF Metric(edge, cands[k], node_bounds, existing_routes) = Perfect
         THEN Some(cands[k])
         ELSE PickLatest(edge, node_bounds, existing_routes, cands, k + 1,
                         Metric(edge, cands[k], node_bounds, existing_routes), Some(cands[k]))
    ELSE PickLatest(edge, node_bounds, existing_routes, cands, k + 1, best_metric, best_route)

\* the loop over the candidates from k on: the best route so far, returned at once
\* when a candidate scores (0, 0, 0)
RECURSIVE PickDetour(_, _, _, _, _, _, _)
PickDetour(edge, node_bounds, existing_routes, cands, k, best_metric, best_route) ==
    IF k > Len(cands) THEN best_route
    ELSE IF LexLess(Metric(edge, cands[k], node_bounds, existing_routes), best_metric)
    THEN IF Metric(edge, cands[k], node_bounds, existing_routes) = Perfect
         THEN Some(cands[k])
         ELSE PickDetour(edge, node_bounds, existing_routes, cands, k + 1,
                         Metric(edge, cands[k], node_bounds, existing_routes), Some(cands[k]))
    ELSE PickDetour(edge, node_bounds, existing_routes, cands, k + 1, best_metric, best_route)

\* detour_route_for_collisions: None, or the route with the best jog
detour_route_for_collisions(edge, route, node_bounds, existing_routes, iteration_order) ==
    IF Len(route) < 2 THEN None
    ELSE IF Metric(edge, route, node_bounds, existing_routes)[1] = 0 THEN None
    ELSE PickDetour(edge, node_bounds, existing_routes,
                    DetourCandidates(edge, route, node_bounds, iteration_order, 1),
                    1, Metric(edge, route, node_bounds, existing_routes), None)

\* the segment detour pass of compute_routes
RECURSIVE DetourPass(_, _, _, _, _, _)
DetourPass(edge, path, node_bounds, existing_routes, iteration_order, detour_attempts) ==
    IF ~route_collides_with_nodes(edge, path, node_bounds) THEN path
    ELSE IF detour_route_for_collisions(edge, path, node_bounds, existing_routes,
                                        iteration_order) = None
    THEN path
    ELSE IF detour_attempts + 1 >= 3
    THEN detour_route_for_collisions(edge, path, node_bounds, existing_routes,
                                     iteration_order)[1]
    ELSE DetourPass(edge,
                    detour_route_for_collisions(edge, path, node_bounds, existing_routes,
                                                iteration_order)[1],
                    node_bounds, existing_routes, iteration_order, detour_attempts + 1)

-----------------------------------------------------------------------------
(* trim_route_endpoints.  The boundary of a Rectangle or Stadium node is its   *)
(* rectangle; Circle and Diamond nodes are not declared by the definitions    *)
(* the routes are computed for.                                               *)

\* NodeBoundary::contains_point
contains_point(bounds, point) ==
    CASE bounds.shape \in {"Rectangle", "Stadium"} -> contains(bounds.rect, point)

\* the parameter n / d of the crossing with a vertical or horizontal border, as
\* <<|n|, |d|>>, when it lies in [0, 1] and the crossing lies on the border
BorderCrossing(n, d, other_start, other_d, other_min, other_max) ==
    IF /\ d # 0
       /\ Sign(n) * Sign(d) >= 0
       /\ Abs(n) <= Abs(d)
       /\ other_start + RoundDiv(n * other_d, d) >= other_min
       /\ other_start + RoundDiv(n * other_d, d) <= other_max
    THEN << <<Abs(n), Abs(d)>> >>
    ELSE <<>>

\* the candidates of clip_segment_exit_rect
ExitCandidates(start, dx, dy, rect) ==
    BorderCrossing((IF dx > 0 THEN rect.max_x ELSE rect.min_x) - start.x, dx,
                   start.y, dy, rect.min_y, rect.max_y)
    \o BorderCrossing((IF dy > 0 THEN rect.max_y ELSE rect.min_y) - start.y, dy,
                      start.x, dx, rect.min_x, rect.max_x)

\* the smaller of two parameters
MinParam(s, t) == IF s[1] * t[2] <= t[1] * s[2] THEN s ELSE t

\* t_exit: the fold of min over the candidates, starting from 1
ExitParam(cands) ==
    IF Len(cands) = 1 THEN MinParam(<<1, 1>>, cands[1])
    ELSE MinParam(MinParam(<<1, 1>>, cands[1]), cands[2])

\* the point at parameter t of the segment, moved on by the arrow extension
ExitPoint(start, dx, dy, t, extension, distance) ==
    Pt(start.x + RoundDiv(t[1] * dx, t[2]) + RoundDiv(dx * extension, distance),
       start.y + RoundDiv(t[1] * dy, t[2]) + RoundDiv(dy * extension, distance))

\* clip_segment_exit_rect
clip_segment_exit_rect(start, next, rect, extend_outward) ==
    IF Distance(start, next) = 0 THEN None
    ELSE IF ExitCandidates(start, next.x - start.x, next.y - start.y, rect) = <<>> THEN None
    ELSE Some(ExitPoint(start, next.x - start.x, next.y - start.y,
                        ExitParam(ExitCandidates(start, next.x - start.x, next.y - start.y,
                                                 rect)),
                        IF extend_outward THEN EDGE_ARROW_EXTENSION ELSE 0,
                        Distance(start, next)))

\* clip_segment_exit_with_shape
clip_segment_exit_with_shape(start, next, bounds, extend_outward) ==
    CASE bounds.shape \in {"Rectangle", "Stadium"} ->
            clip_segment_exit_rect(start, next, bounds.rect, extend_outward)

\* the point, replaced by its clipped point if it lies in the shape and has one
Trimmed(point, next, bounds, extend_outward) ==
    IF /\ contains_point(bounds, point)
       /\ clip_segment_exit_with_shape(point, next, bounds, extend_outward) # None
    THEN clip_segment_exit_with_shape(point, next, bounds, extend_outward)[1]
    ELSE point

TrimLast(path, to_bounds) ==
    [path EXCEPT ![Len(path)] = Trimmed(path[Len(path)], path[Len(path) - 1], to_bounds, TRUE)]

\* trim_route_endpoints
trim_route_endpoints(path, from_bounds, to_bounds) ==
    IF Len(path) < 2 THEN path
    ELSE TrimLast([path EXCEPT ![1] = Trimmed(path[1], path[2], from_bounds, FALSE)],
                  to_bounds)

-----------------------------------------------------------------------------
(* Diagram::compute_routes, edge by edge *)

\* the interior points the route of an edge starts from
MiddlePoints(positions, ov, edge_idx) ==
    IF has_override(ov, edge_idx) THEN ov.edges[edge_identifier(edges[edge_idx])]
    ELSE IF auto_points(positions, ov, edge_idx) # None
    THEN auto_points(positions, ov, edge_idx)[1]
    ELSE <<>>

\* the path after the conflict-resolution search, for an edge without override
AdjustedPath(edge, from, to, middle, node_bounds, existing_routes) ==
    IF /\ middle = <<>>
       /\ Metric(edge, build_route(from, <<>>, to), node_bounds, existing_routes) # Perfect
       /\ adjust_edge_for_conflicts(from, to, edge, node_bounds, existing_routes,
              Metric(edge, build_route(from, <<>>, to), node_bounds, existing_routes)) # None
    THEN build_route(from,
             adjust_edge_for_conflicts(from, to, edge, node_bounds, existing_routes,
                 Metric(edge, build_route(from, <<>>, to), node_bounds, existing_routes))[1],
             to)
    ELSE build_route(from, middle, to)

\* the loop body without the tests of has_custom_override: the detours are
\* made for every edge
DetouredPath(edge, from, to, middle, overridden, node_bounds, existing_routes, iteration_order) ==
    trim_route_endpoints(
        DetourPass(edge, AdjustedPath(edge, from, to, middle, node_bounds, existing_routes),
                   node_bounds, existing_routes, iteration_order, 0),
        node_bounds[edge.from], node_bounds[edge.to])

\* the body of the loop over the edges: the route stored for the edge
RoutedPath(edge, from, to, middle, overridden, node_bounds, existing_routes, iteration_order) ==
    trim_route_endpoints(
        IF overridden THEN build_route(from, middle, to)
        ELSE DetourPass(edge,
                        AdjustedPath(edge, from, to, middle, node_bounds, existing_routes),
                        node_bounds, existing_routes, iteration_order, 0),
        node_bounds[edge.from], node_bounds[edge.to])

route_of_edge(edge_idx, positions, ov, existing_routes, iteration_order) ==
    RoutedPath(edges[edge_idx], positions[edges[edge_idx].from],
               positions[edges[edge_idx].to], MiddlePoints(positions, ov, edge_idx),
               has_override(ov, edge_idx), NodeBounds(positions), existing_routes,
               iteration_order)

\* HashMap::insert
Insert(map, key, value) ==
    [k \in DOMAIN map \cup {key} |-> IF k = key THEN value ELSE map[k]]

\* the orders in which a HashMap with the key set S may be iterated
IterationOrders(S) ==
    {f \in [1..Cardinality(S) -> S] : \A i, j \in 1..Cardinality(S) : i # j => f[i] # f[j]}

\* no call of align_geometry has returned
NoGeometry == [ok |-> FALSE, error |-> ""]

NoLayout == [auto_positions |-> EmptyMap, final_positions |-> EmptyMap, routes |-> EmptyMap]

RouteIdle ==
    /\ hash_order = <<>>
    /\ routes = EmptyMap
    /\ route_index = 0
    /\ call = 1
    /\ first_layout = NoLayout
    /\ geometry = NoGeometry

\* compute_routes(final_positions, overrides) starts: the node_bounds map is built
RoutesStart ==
    /\ pc = "positioned"
    /\ pc' = "routing"
    /\ hash_order' \in IterationOrders(DOMAIN final_positions)
    /\ routes' = EmptyMap
    /\ route_index' = 1
    /\ UNCHANGED <<parseVarsButPc, editVars, serveVars, renderVars, layoutVars, call, first_layout,
                   geometry>>

\* the next edge is routed
RouteEdge ==
    /\ pc = "routing" /\ route_index <= Len(edges)
    /\ \E path \in {route_of_edge(route_index, final_positions, overrides, routes, hash_order)} :
          routes' = Insert(routes, edge_identifier(edges[route_index]), path)
    /\ route_index' = route_index + 1
    /\ UNCHANGED <<pc, parseVarsButPc, editVars, serveVars, renderVars, layoutVars, hash_order, call,
                   first_layout, geometry>>

\* compute_routes returns final_routes, and layout its LayoutComputation
RoutesDone ==
    /\ pc = "routing" /\ route_index > Len(edges)
    /\ pc' = "routed"
    /\ UNCHANGED <<parseVarsButPc, editVars, serveVars, renderVars, layoutVars, routeVars>>

\* layout is called a second time on the same diagram with the same overrides
LayoutAgain ==
    /\ pc = "routed" /\ call = 1
    /\ pc' = "parsed"
    /\ call' = 2
    /\ first_layout' = [auto_positions |-> auto_positions,
                        final_positions |-> final_positions, routes |-> routes]
    /\ levels' = EmptyMap
    /\ indegree' = EmptyMap
    /\ queue' = <<>>
    /\ visited' = {}
    /\ auto_positions' = EmptyMap
    /\ sg_index' = 0
    /\ placed_bounds' = <<>>
    /\ final_positions' = EmptyMap
    /\ hash_order' = <<>>
    /\ routes' = EmptyMap
    /\ route_index' = 0
    /\ UNCHANGED <<parseVarsButPc, editVars, serveVars, renderVars, overrides, geometry>>

-----------------------------------------------------------------------------
(* align_geometry and the frames of the subgraphs *)

LAYOUT_MARGIN == 80 * Scale

\* the space between the members of a subgraph and its frame, the band of
\* the frame's label and the place of the label in it
SUBGRAPH_PADDING == 48 * Scale
SUBGRAPH_LABEL_AREA == 36 * Scale
SUBGRAPH_LABEL_INSET_X == 20 * Scale
SUBGRAPH_LABEL_TEXT_BASELINE == 24 * Scale

\* the union of two rectangles
UnionRect(a, b) ==
    [min_x |-> Min(a.min_x, b.min_x), max_x |-> Max(a.max_x, b.max_x),
     min_y |-> Min(a.min_y, b.min_y), max_y |-> Max(a.max_y, b.max_y)]

\* expand_bounds
expand_bounds(target, rect) ==
    IF target = None THEN Some(rect) ELSE Some(UnionRect(target[1], rect))

\* expand_bounds with the bounds of a child, if it has any
ExpandWith(target, found) ==
    IF found = None THEN target ELSE expand_bounds(target, found[1])

\* the padded bounds with the band of the label above them
LabelledBounds(bounds) ==
    [min_x |-> bounds.min_x - SUBGRAPH_PADDING, max_x |-> bounds.max_x + SUBGRAPH_PADDING,
     min_y |-> bounds.min_y - SUBGRAPH_PADDING - SUBGRAPH_LABEL_AREA,
     max_y |-> bounds.max_y + SUBGRAPH_PADDING]

\* the frame is made at least as wide as a padded node
WidenedBounds(outer, min_width) ==
    IF outer.max_x - outer.min_x < min_width
    THEN [outer EXCEPT !.min_x = @ - (min_width - (outer.max_x - outer.min_x)) \div 2,
                       !.max_x = @ + (min_width - (outer.max_x - outer.min_x)) \div 2]
    ELSE outer

\* and at least as high; the height is the one measured before the widening
HeightenedBounds(outer, height, min_height) ==
    IF height < min_height
    THEN [outer EXCEPT !.min_y = @ - (min_height - height) \div 2,
                       !.max_y = @ + (min_height - height) \div 2]
    ELSE outer

\* the outer rectangle without the padding and the band of the label
TightBounds(bounds) ==
    HeightenedBounds(WidenedBounds(bounds, NODE_WIDTH + SUBGRAPH_PADDING * 2),
                     bounds.max_y - bounds.min_y,
                     NODE_HEIGHT + SUBGRAPH_PADDING * 2 + SUBGRAPH_LABEL_AREA)

\* the outer rectangle of a subgraph whose members have the bounds
OuterBounds(bounds) ==
    HeightenedBounds(WidenedBounds(LabelledBounds(bounds), NODE_WIDTH + SUBGRAPH_PADDING * 2),
                     LabelledBounds(bounds).max_y - LabelledBounds(bounds).min_y,
                     NODE_HEIGHT + SUBGRAPH_PADDING * 2 + SUBGRAPH_LABEL_AREA)

\* SubgraphVisual
SubgraphVisual(subgraph, depth, outer) ==
    [id |-> subgraph.id, label |-> subgraph.label,
     x |-> outer.min_x, y |-> outer.min_y,
     width |-> outer.max_x - outer.min_x, height |-> outer.max_y - outer.min_y,
     label_x |-> outer.min_x + SUBGRAPH_LABEL_INSET_X,
     label_y |-> outer.min_y + SUBGRAPH_LABEL_TEXT_BASELINE,
     depth |-> depth, order |-> subgraph.order]

\* the end of collect_subgraph_visual: nothing without bounds, else the
\* visual is pushed after those of the descendants
PushVisual(subgraph, depth, visuals, bounds) ==
    IF bounds = None THEN [visuals |-> visuals, bounds |-> None]
    ELSE [visuals |-> Append(visuals, SubgraphVisual(subgraph, depth, OuterBounds(bounds[1]))),
          bounds |-> Some(OuterBounds(bounds[1]))]

\* the result of a child is taken into what was collected before it
WithChild(acc, found) ==
    [visuals |-> acc.visuals \o found.visuals, bounds |-> ExpandWith(acc.bounds, found.bounds)]

\* collect_subgraph_visual: the visuals pushed and the bounds returned
RECURSIVE collect_subgraph_visual(_, _, _)
RECURSIVE CollectChildren(_, _, _, _)
CollectChildren(children, positions, depth, acc) ==
    IF children = <<>> THEN acc
    ELSE CollectChildren(Tail(children), positions, depth,
                         WithChild(acc, collect_subgraph_visual(Head(children), positions, depth)))

\* the children's bounds expanded by the rectangles of the positioned nodes
WithOwnNodes(subgraph, positions, depth, acc) ==
    PushVisual(subgraph, depth, acc.visuals,
               ExpandWith(acc.bounds,
                          compute_group_bounds({subgraph.nodes[i] : i \in 1..Len(subgraph.nodes)},
                                               positions)))

collect_subgraph_visual(subgraph, positions, depth) ==
    WithOwnNodes(subgraph, positions, depth,
                 CollectChildren(subgraph.children, positions, depth + 1,
                                 [visuals |-> <<>>, bounds |-> None]))

\* the comparison of compute_subgraph_visuals: depth, then declaration index,
\* then id
VisualBefore(a, b) ==
    \/ a.depth < b.depth
    \/ a.depth = b.depth /\ a.order < b.order
    \/ a.depth = b.depth /\ a.order = b.order /\ StrGreater(b.id, a.id)

\* sort_by; the declaration indices of the subgraphs are distinct
SortVisuals(visuals) ==
    [n \in 1..Len(visuals) |->
        visuals[CHOOSE i \in 1..Len(visuals) :
                    Cardinality({j \in 1..Len(visuals) : VisualBefore(visuals[j], visuals[i])})
                        = n - 1]]

RECURSIVE CollectTopLevel(_, _)
CollectTopLevel(sgs, positions) ==
    IF sgs = <<>> THEN <<>>
    ELSE collect_subgraph_visual(Head(sgs), positions, 0).visuals
         \o CollectTopLevel(Tail(sgs), positions)

\* compute_subgraph_visuals
compute_subgraph_visuals(sgs, positions) == SortVisuals(CollectTopLevel(sgs, positions))

\* the rectangle of a point
PointRect(point) == [min_x |-> point.x, max_x |-> point.x, min_y |-> point.y, max_y |-> point.y]

\* the rectangle of a subgraph visual
VisualRect(sg) ==
    [min_x |-> sg.x, max_x |-> sg.x + sg.width, min_y |-> sg.y, max_y |-> sg.y + sg.height]

\* the rectangles of the nodes only
NodeExtents(positions, paths, es, visuals) ==
    {node_rect(positions[id]) : id \in DOMAIN positions}

\* the rectangles the four loops of align_geometry take into the bounds: the
\* nodes, the points of the routes, the boxes of the edge labels and the
\* subgraph visuals
Extents(positions, paths, es, visuals) ==
    {node_rect(positions[id]) : id \in DOMAIN positions}
    \cup UNION {{PointRect(paths[id][k]) : k \in 1..Len(paths[id])} : id \in DOMAIN paths}
    \cup {label_rect_for_route(es[i], paths[edge_identifier(es[i])])[1] :
             i \in {j \in 1..Len(es) : es[j].label # None}}
    \cup {VisualRect(visuals[i]) : i \in 1..Len(visuals)}

\* min_x, max_x, min_y and max_y after the loops
BoundsOf(rects) ==
    [min_x |-> MinOf({r.min_x : r \in rects}), max_x |-> MaxOf({r.max_x : r \in rects}),
     min_y |-> MinOf({r.min_y : r \in rects}), max_y |-> MaxOf({r.max_y : r \in rects})]

ShiftPoint(point, shift_x, shift_y) == Pt(point.x + shift_x, point.y + shift_y)

ShiftVisual(sg, shift_x, shift_y) ==
    [sg EXCEPT !.x = @ + shift_x, !.y = @ + shift_y,
               !.label_x = @ + shift_x, !.label_y = @ + shift_y]

\* the Geometry returned for the bounds
Shifted(positions, paths, visuals, bounds, shift_x, shift_y) ==
    [ok |-> TRUE,
     positions |-> [id \in DOMAIN positions |-> ShiftPoint(positions[id], shift_x, shift_y)],
     edges |-> [id \in DOMAIN paths |->
                   [k \in 1..Len(paths[id]) |-> ShiftPoint(paths[id][k], shift_x, shift_y)]],
     subgraphs |-> [i \in 1..Len(visuals) |-> ShiftVisual(visuals[i], shift_x, shift_y)],
     width |-> Max(bounds.max_x - bounds.min_x, NODE_WIDTH) + LAYOUT_MARGIN * 2,
     height |-> Max(bounds.max_y - bounds.min_y, NODE_HEIGHT) + LAYOUT_MARGIN * 2]

AlignTo(positions, paths, visuals, bounds) ==
    IF bounds.min_x > bounds.max_x \/ bounds.min_y > bounds.max_y
    THEN [ok |-> FALSE, error |-> "unable to compute diagram bounds"]
    ELSE Shifted(positions, paths, visuals, bounds,
                 LAYOUT_MARGIN - bounds.min_x, LAYOUT_MARGIN - bounds.min_y)

AlignWith(positions, paths, es, visuals) ==
    AlignTo(positions, paths, visuals, BoundsOf(Extents(positions, paths, es, visuals)))

\* align_geometry
align_geometry(positions, paths, es, sgs) ==
    IF DOMAIN positions = {}
    THEN [ok |-> FALSE, error |-> "diagram does not declare any nodes"]
    ELSE AlignWith(positions, paths, es, compute_subgraph_visuals(sgs, positions))

\* render_svg calls align_geometry with what layout returned
AlignGeometry ==
    /\ pc = "routed"
    /\ \E aligned \in {align_geometry(final_positions, routes, edges, subgraphs)} :
          /\ geometry' = aligned
          /\ pc' = IF aligned.ok THEN "aligned" ELSE "align_failed"
    /\ UNCHANGED <<parseVarsButPc, editVars, serveVars, renderVars, layoutVars, hash_order, routes,
                   route_index, call, first_layout>>

-----------------------------------------------------------------------------
(* Diagram::render_svg.  The document is held as the sequence of its          *)
(* elements; an element records its kind and, for every string the template   *)
(* puts into it, the string and the text written for it.  The numbers the     *)
(* template formats from the geometry are not held.                           *)

\* escape_xml, one character
EscapeChar(ch) ==
    CASE ch = "&" -> <<"&","a","m","p",";">>
      [] ch = "<" -> <<"&","l","t",";">>
      [] ch = ">" -> <<"&","g","t",";">>
      [] ch = "\"" -> <<"&","q","u","o","t",";">>
      [] ch = "'" -> <<"&","a","p","o","s",";">>
      [] OTHER -> <<ch>>

\* escape_xml
RECURSIVE escape_xml(_)
escape_xml(input) ==
    IF input = <<>> THEN <<>> ELSE EscapeChar(Head(input)) \o escape_xml(Tail(input))

\* a string written through escape_xml, and one written as it is
Escaped(raw) == [raw |-> raw, text |-> escape_xml(raw)]
Unescaped(raw) == [raw |-> raw, text |-> raw]

\* the group of one subgraph
SubgraphElement(visual) ==
    [kind |-> "subgraph", inserts |-> <<Escaped(visual.id), Escaped(visual.label)>>]

\* the stroke colour of an edge: the style's colour, if there is one
EdgeColour(edge) ==
    IF /\ edge_identifier(edge) \in DOMAIN styles.edge_styles
       /\ styles.edge_styles[edge_identifier(edge)].color # None
    THEN <<Unescaped(styles.edge_styles[edge_identifier(edge)].color[1])>>
    ELSE <<>>

\* normalize_label_lines for a label of one line
normalize_label_lines(label) == IF label = <<>> THEN <<<<" ">>>> ELSE <<label>>

\* the line or polyline of an edge, followed by its label box if it has a label
EdgeElements(edge) ==
    <<[kind |-> "edge_line", inserts |-> EdgeColour(edge)]>>
    \o (IF edge.label = None THEN <<>>
        ELSE <<[kind |-> "edge_label",
                inserts |-> EdgeColour(edge)
                    \o [i \in 1..Len(normalize_label_lines(edge.label[1])) |->
                           Escaped(normalize_label_lines(edge.label[1])[i])]]>>)

RECURSIVE AllEdgeElements(_)
AllEdgeElements(es) ==
    IF es = <<>> THEN <<>> ELSE EdgeElements(Head(es)) \o AllEdgeElements(Tail(es))

\* a colour of a node: the style's value, if there is one
NodeColour(id, field) ==
    IF id \in DOMAIN styles.node_styles /\ styles.node_styles[id][field] # None
    THEN <<Unescaped(styles.node_styles[id][field][1])>>
    ELSE <<>>

\* the shape and the label text of one node
NodeElement(id) ==
    [kind |-> "node",
     inserts |-> NodeColour(id, "fill") \o NodeColour(id, "stroke")
                 \o NodeColour(id, "text") \o <<Escaped(nodes[id].label)>>]

NoStyles == [node_styles |-> EmptyMap, edge_styles |-> EmptyMap]

RenderIdle ==
    /\ background = <<>>
    /\ styles = NoStyles
    /\ svg = <<>>
    /\ render_call = 1
    /\ first_svg = <<>>

\* layout and align_geometry have returned a Geometry; the svg element, the
\* markers and the background rect are written
RenderBackground ==
    /\ pc = "aligned"
    /\ pc' = "render_subgraphs"
    /\ svg' = <<[kind |-> "background", inserts |-> <<Escaped(background)>>]>>
    /\ UNCHANGED <<parseVarsButPc, layoutVars, routeVars, editVars, serveVars, background, styles,
                   render_call, first_svg>>

\* the loop over geometry.subgraphs
RenderSubgraphs ==
    /\ pc = "render_subgraphs"
    /\ pc' = "render_edges"
    /\ svg' = svg \o [i \in 1..Len(geometry.subgraphs) |->
                         SubgraphElement(geometry.subgraphs[i])]
    /\ UNCHANGED <<parseVarsButPc, layoutVars, routeVars, editVars, serveVars, background, styles,
                   render_call, first_svg>>

\* the loop over self.edges
RenderEdges ==
    /\ pc = "render_edges"
    /\ pc' = "render_nodes"
    /\ svg' = svg \o AllEdgeElements(edges)
    /\ UNCHANGED <<parseVarsButPc, layoutVars, routeVars, editVars, serveVars, background, styles,
                   render_call, first_svg>>

\* the loop over self.nodes, a HashMap, and the closing tag
RenderNodes ==
    /\ pc = "render_nodes"
    /\ pc' = "rendered"
    /\ \E iteration_order \in IterationOrders(DOMAIN nodes) :
          svg' = svg \o [i \in 1..Len(iteration_order) |-> NodeElement(iteration_order[i])]
    /\ UNCHANGED <<parseVarsButPc, layoutVars, routeVars, editVars, serveVars, background, styles,
                   render_call, first_svg>>

\* render_svg is called a second time with the same arguments
RenderAgain ==
    /\ pc = "rendered" /\ render_call = 1
    /\ pc' = "parsed"
    /\ render_call' = 2
    /\ first_svg' = svg
    /\ svg' = <<>>
    /\ levels' = EmptyMap
    /\ indegree' = EmptyMap
    /\ queue' = <<>>
    /\ visited' = {}
    /\ auto_positions' = EmptyMap
    /\ sg_index' = 0
    /\ placed_bounds' = <<>>
    /\ final_positions' = EmptyMap
    /\ hash_order' = <<>>
    /\ routes' = EmptyMap
    /\ route_index' = 0
    /\ geometry' = NoGeometry
    /\ UNCHANGED <<parseVarsButPc, editVars, serveVars, background, styles, overrides, call, first_layout>>

-----------------------------------------------------------------------------
(* The JSON text of the layout block.  A value is held as its kind and what  *)
(* it is made of: the members of an object in their order, the items of an  *)
(* array, the characters of a string, a number.  The numbers of the layout   *)
(* block are f32 coordinates; the ones written here are whole.               *)

JObj(members) == [t |-> "obj", of |-> members]
JArr(items) == [t |-> "arr", of |-> items]
JStr(s) == [t |-> "str", of |-> s]
JNum(n) == [t |-> "num", of |-> n]
Member(key, value) == [k |-> key, v |-> value]

DigitChars == <<"0","1","2","3","4","5","6","7","8","9">>

\* the decimal digits of a natural number
RECURSIVE FormatNat(_)
FormatNat(n) ==
    IF n < 10 THEN <<DigitChars[n + 1]>>
    ELSE FormatNat(n \div 10) \o <<DigitChars[(n % 10) + 1]>>

\* f32 as serde_json writes it: a whole number is written with ".0"
format_f32(n) ==
    (IF n < 0 THEN <<"-">> ELSE <<>>) \o FormatNat(IF n < 0 THEN -n ELSE n) \o <<".","0">>

IsDigit(c) == \E d \in 1..10 : DigitChars[d] = c

DigitOf(c) == (CHOOSE d \in 1..10 : DigitChars[d] = c) - 1

RECURSIVE ParseNat(_)
ParseNat(s) ==
    IF s = <<>> THEN 0 ELSE ParseNat(SubSeq(s, 1, Len(s) - 1)) * 10 + DigitOf(s[Len(s)])

\* the text is a whole number with ".0", as format_f32 writes it
IsWholeF32(s) ==
    /\ EndsWith(s, <<".","0">>)
    /\ Len(IF StartsWith(s, <<"-">>) THEN Tail(s) ELSE s) > 2
    /\ \A i \in 1..(Len(s) - 2) : IsDigit(s[i]) \/ (i = 1 /\ s[i] = "-")

parse_f32(s) ==
    IF StartsWith(s, <<"-">>) THEN -ParseNat(SubSeq(s, 2, Len(s) - 2))
    ELSE ParseNat(SubSeq(s, 1, Len(s) - 2))

\* a string as JSON writes it: a quote and a backslash behind a backslash
RECURSIVE JsonEscaped(_)
JsonEscaped(s) ==
    IF s = <<>> THEN <<>>
    ELSE (IF Head(s) \in {"\"", "\\"} THEN <<"\\", Head(s)>> ELSE <<Head(s)>>)
         \o JsonEscaped(Tail(s))

\* and as JSON reads it
RECURSIVE JsonUnescaped(_)
JsonUnescaped(s) ==
    IF s = <<>> THEN <<>>
    ELSE IF Head(s) = "\\" /\ Len(s) >= 2 THEN <<s[2]>> \o JsonUnescaped(From(s, 3))
    ELSE <<Head(s)>> \o JsonUnescaped(Tail(s))

Quoted(s) == <<"\"">> \o JsonEscaped(s) \o <<"\"">>

\* serde_json::to_string_pretty: the lines of a value, indented by two spaces a level
RECURSIVE PrettyLines(_, _, _, _)
RECURSIVE PrettyMembers(_, _, _)
RECURSIVE PrettyItems(_, _, _)
PrettyLines(value, indent, prefix, suffix) ==
    CASE value.t = "str" -> <<indent \o prefix \o Quoted(value.of) \o suffix>>
      [] value.t = "num" -> <<indent \o prefix \o format_f32(value.of) \o suffix>>
      [] value.t = "obj" ->
            IF value.of = <<>> THEN <<indent \o prefix \o <<"{","}">> \o suffix>>
            ELSE <<indent \o prefix \o <<"{">>>>
                 \o PrettyMembers(value.of, 1, indent \o <<" "," ">>)
                 \o <<indent \o <<"}">> \o suffix>>
      [] value.t = "arr" ->
            IF value.of = <<>> THEN <<indent \o prefix \o <<"[","]">> \o suffix>>
            ELSE <<indent \o prefix \o <<"[">>>>
                 \o PrettyItems(value.of, 1, indent \o <<" "," ">>)
                 \o <<indent \o <<"]">> \o suffix>>

PrettyMembers(members, k, indent) ==
    IF k > Len(members) THEN <<>>
    ELSE PrettyLines(members[k].v, indent, Quoted(members[k].k) \o <<":"," ">>,
                     IF k < Len(members) THEN <<",">> ELSE <<>>)
         \o PrettyMembers(members, k + 1, indent)

PrettyItems(items, k, indent) ==
    IF k > Len(items) THEN <<>>
    ELSE PrettyLines(items[k], indent, <<>>, IF k < Len(items) THEN <<",">> ELSE <<>>)
         \o PrettyItems(items, k + 1, indent)

to_string_pretty(value) == JoinLines(PrettyLines(value, <<>>, <<>>, <<>>))

\* serde_json::from_str on text with one token group a line, as
\* to_string_pretty writes it; the white space before a group is skipped
JsonError == [ok |-> FALSE, value |-> JStr(<<>>), next |-> 0]
Parsed(value, next) == [ok |-> TRUE, value |-> value, next |-> next]

\* the group without the comma after it
Body(line) == IF EndsWith(line, <<",">>) THEN SubSeq(line, 1, Len(line) - 1) ELSE line

\* a line that opens a member: "key": value
IsMemberLine(line) == StartsWith(line, <<"\"">>) /\ Contains(Tail(line), <<"\"",":"," ">>)
KeyOf(line) == JsonUnescaped(SubSeq(line, 2, Find(Tail(line), <<"\"",":"," ">>)))
ValueOf(line) == From(line, Find(Tail(line), <<"\"",":"," ">>) + 4)

RECURSIVE ParseValueAt(_, _, _)
RECURSIVE ParseMembersFrom(_, _, _)
RECURSIVE ParseItemsFrom(_, _, _)

MembersAfter(ls, acc, key, found) ==
    IF found.ok THEN ParseMembersFrom(ls, found.next, Append(acc, Member(key, found.value)))
    ELSE JsonError

ItemsAfter(ls, acc, found) ==
    IF found.ok THEN ParseItemsFrom(ls, found.next, Append(acc, found.value))
    ELSE JsonError

ParseMembersFrom(ls, i, acc) ==
    IF i > Len(ls) THEN JsonError
    ELSE IF Body(TrimStart(ls[i])) = <<"}">> THEN Parsed(JObj(acc), i + 1)
    ELSE IF IsMemberLine(TrimStart(ls[i]))
    THEN MembersAfter(ls, acc, KeyOf(TrimStart(ls[i])),
                      ParseValueAt(ls, i, Body(ValueOf(TrimStart(ls[i])))))
    ELSE JsonError

ParseItemsFrom(ls, i, acc) ==
    IF i > Len(ls) THEN JsonError
    ELSE IF Body(TrimStart(ls[i])) = <<"]">> THEN Parsed(JArr(acc), i + 1)
    ELSE ItemsAfter(ls, acc, ParseValueAt(ls, i, Body(TrimStart(ls[i]))))

\* the value that starts with the group body on line i
ParseValueAt(ls, i, body) ==
    CASE body = <<"{","}">> -> Parsed(JObj(<<>>), i + 1)
      [] body = <<"[","]">> -> Parsed(JArr(<<>>), i + 1)
      [] body = <<"{">> -> ParseMembersFrom(ls, i + 1, <<>>)
      [] body = <<"[">> -> ParseItemsFrom(ls, i + 1, <<>>)
      [] Len(body) >= 2 /\ body[1] = "\"" /\ body[Len(body)] = "\"" ->
            Parsed(JStr(JsonUnescaped(SubSeq(body, 2, Len(body) - 1))), i + 1)
      [] IsWholeF32(body) -> Parsed(JNum(parse_f32(body)), i + 1)
      [] OTHER -> JsonError

ValueFrom(ls, found) ==
    IF found.ok /\ found.next = Len(ls) + 1 THEN Some(found.value) ELSE None

\* the value the text holds, None when the text is not one value
from_str(json) ==
    IF SplitLines(json) = <<>> THEN None
    ELSE ValueFrom(SplitLines(json),
                   ParseValueAt(SplitLines(json), 1, Body(TrimStart(SplitLines(json)[1]))))

-----------------------------------------------------------------------------
(* LayoutOverrides as JSON (derive(Serialize, Deserialize)).  A style is      *)
(* written with the fields that are set; a field the text does not hold is   *)
(* read as its default.                                                       *)

NoLayoutOverrides ==
    [nodes |-> EmptyMap, edges |-> EmptyMap, node_styles |-> EmptyMap, edge_styles |-> EmptyMap]

\* NodeStyleOverride::default, EdgeStyleOverride::default
NoNodeStyle == [fill |-> None, stroke |-> None, text |-> None, label_fill |-> None,
                image_fill |-> None]
NoEdgeStyle == [line |-> None, color |-> None, arrow |-> None]

PointValue(p) == JObj(<<Member(<<"x">>, JNum(p.x)), Member(<<"y">>, JNum(p.y))>>)

EdgeOverrideValue(e) ==
    JObj(<<Member(<<"p","o","i","n","t","s">>, JArr([k \in 1..Len(e.points) |-> PointValue(e.points[k])]))>>)

\* skip_serializing_if = "Option::is_none"
OptionalMember(key, field) == IF field = None THEN <<>> ELSE <<Member(key, JStr(field[1]))>>

NodeStyleValue(s) ==
    JObj(OptionalMember(<<"f","i","l","l">>, s.fill) \o OptionalMember(<<"s","t","r","o","k","e">>, s.stroke)
         \o OptionalMember(<<"t","e","x","t">>, s.text) \o OptionalMember(<<"l","a","b","e","l","_","f","i","l","l">>, s.label_fill)
         \o OptionalMember(<<"i","m","a","g","e","_","f","i","l","l">>, s.image_fill))

EdgeStyleValue(s) ==
    JObj(OptionalMember(<<"l","i","n","e">>, s.line) \o OptionalMember(<<"c","o","l","o","r">>, s.color)
         \o OptionalMember(<<"a","r","r","o","w">>, s.arrow))

\* a HashMap is written in the order it is iterated in
MapValue(map, iteration_order, Conv(_)) ==
    JObj([k \in 1..Len(iteration_order) |->
             Member(iteration_order[k], Conv(map[iteration_order[k]]))])

OverridesValue(ov, orders) ==
    JObj(<<Member(<<"n","o","d","e","s">>, MapValue(ov.nodes, orders.nodes, PointValue)),
           Member(<<"e","d","g","e","s">>, MapValue(ov.edges, orders.edges, EdgeOverrideValue)),
           Member(<<"n","o","d","e","_","s","t","y","l","e","s">>, MapValue(ov.node_styles, orders.node_styles, NodeStyleValue)),
           Member(<<"e","d","g","e","_","s","t","y","l","e","s">>, MapValue(ov.edge_styles, orders.edge_styles, EdgeStyleValue))>>)

\* the orders the four maps of the overrides may be iterated in
MapOrders(ov) ==
    [nodes : IterationOrders(DOMAIN ov.nodes), edges : IterationOrders(DOMAIN ov.edges),
     node_styles : IterationOrders(DOMAIN ov.node_styles),
     edge_styles : IterationOrders(DOMAIN ov.edge_styles)]

HasMember(value, key) == \E k \in 1..Len(value.of) : value.of[k].k = key

\* a key written twice is read with its last value
MemberValue(value, key) ==
    value.of[MaxOf({k \in 1..Len(value.of) : value.of[k].k = key})].v

IsNumberMember(value, key) == HasMember(value, key) /\ MemberValue(value, key).t = "num"

IsPointValue(value) ==
    value.t = "obj" /\ IsNumberMember(value, <<"x">>) /\ IsNumberMember(value, <<"y">>)

IsEdgeOverrideValue(value) ==
    /\ value.t = "obj"
    /\ HasMember(value, <<"p","o","i","n","t","s">>) =>
          /\ MemberValue(value, <<"p","o","i","n","t","s">>).t = "arr"
          /\ \A k \in 1..Len(MemberValue(value, <<"p","o","i","n","t","s">>).of) :
                IsPointValue(MemberValue(value, <<"p","o","i","n","t","s">>).of[k])

IsStyleValue(value) ==
    value.t = "obj" /\ \A k \in 1..Len(value.of) : value.of[k].v.t = "str"

IsMapValue(value, Is(_)) ==
    value.t = "obj" /\ \A k \in 1..Len(value.of) : Is(value.of[k].v)

IsMapMember(value, key, Is(_)) ==
    HasMember(value, key) => IsMapValue(MemberValue(value, key), Is)

IsOverridesValue(value) ==
    /\ value.t = "obj"
    /\ IsMapMember(value, <<"n","o","d","e","s">>, IsPointValue)
    /\ IsMapMember(value, <<"e","d","g","e","s">>, IsEdgeOverrideValue)
    /\ IsMapMember(value, <<"n","o","d","e","_","s","t","y","l","e","s">>, IsStyleValue)
    /\ IsMapMember(value, <<"e","d","g","e","_","s","t","y","l","e","s">>, IsStyleValue)

PointOf(value) == Pt(MemberValue(value, <<"x">>).of, MemberValue(value, <<"y">>).of)

EdgeOverrideOf(value) ==
    [points |-> IF HasMember(value, <<"p","o","i","n","t","s">>)
                THEN [k \in 1..Len(MemberValue(value, <<"p","o","i","n","t","s">>).of) |->
                         PointOf(MemberValue(value, <<"p","o","i","n","t","s">>).of[k])]
                ELSE <<>>]

OptionalField(value, key) ==
    IF HasMember(value, key) THEN Some(MemberValue(value, key).of) ELSE None

NodeStyleOf(value) ==
    [fill |-> OptionalField(value, <<"f","i","l","l">>), stroke |-> OptionalField(value, <<"s","t","r","o","k","e">>),
     text |-> OptionalField(value, <<"t","e","x","t">>),
     label_fill |-> OptionalField(value, <<"l","a","b","e","l","_","f","i","l","l">>),
     image_fill |-> OptionalField(value, <<"i","m","a","g","e","_","f","i","l","l">>)]

EdgeStyleOf(value) ==
    [line |-> OptionalField(value, <<"l","i","n","e">>), color |-> OptionalField(value, <<"c","o","l","o","r">>),
     arrow |-> OptionalField(value, <<"a","r","r","o","w">>)]

\* serde(default): a map the text does not hold is empty
MapOf(value, key, Conv(_)) ==
    IF HasMember(value, key)
    THEN [id \in {MemberValue(value, key).of[k].k : k \in 1..Len(MemberValue(value, key).of)} |->
             Conv(MemberValue(MemberValue(value, key), id))]
    ELSE EmptyMap

OverridesOf(value) ==
    [nodes |-> MapOf(value, <<"n","o","d","e","s">>, PointOf),
     edges |-> MapOf(value, <<"e","d","g","e","s">>, EdgeOverrideOf),
     node_styles |-> MapOf(value, <<"n","o","d","e","_","s","t","y","l","e","s">>, NodeStyleOf),
     edge_styles |-> MapOf(value, <<"e","d","g","e","_","s","t","y","l","e","s">>, EdgeStyleOf)]

\* serde_json::from_str::<LayoutOverrides>
overrides_from_str(json) ==
    IF from_str(json) = None THEN None
    ELSE IF ~IsOverridesValue(from_str(json)[1]) THEN None
    ELSE Some(OverridesOf(from_str(json)[1]))

-----------------------------------------------------------------------------
(* The layout block of a source file: merge_source_and_overrides and         *)
(* split_source_and_overrides                                                 *)

LAYOUT_BLOCK_START == <<"%","%"," ","o","x","d","r","a","w","-","l","a","y","o","u","t">>
LAYOUT_BLOCK_END == <<"%","%"," ","o","x","d","r","a","w","-","l","a","y","o","u","t","-","e","n","d">>

eq_ignore_ascii_case(a, b) == ToLower(a) = ToLower(b)

\* LayoutOverrides::is_empty
is_empty(ov) ==
    /\ DOMAIN ov.nodes = {} /\ DOMAIN ov.edges = {}
    /\ DOMAIN ov.node_styles = {} /\ DOMAIN ov.edge_styles = {}

\* str::trim_end_matches('\n')
RECURSIVE TrimEndNewlines(_)
TrimEndNewlines(s) ==
    IF s # <<>> /\ s[Len(s)] = NL THEN TrimEndNewlines(SubSeq(s, 1, Len(s) - 1)) ELSE s

\* every line of the JSON text behind "%% "
RECURSIVE CommentedLines(_)
CommentedLines(ls) ==
    IF ls = <<>> THEN <<>>
    ELSE <<"%","%"," ">> \o Head(ls) \o <<NL>> \o CommentedLines(Tail(ls))

\* merge_source_and_overrides, the maps written in the given orders
merge_source_and_overrides(text, ov, orders) ==
    IF is_empty(ov) THEN TrimEndNewlines(text) \o <<NL>>
    ELSE TrimEndNewlines(text) \o <<NL>> \o <<NL>> \o LAYOUT_BLOCK_START \o <<NL>>
         \o CommentedLines(SplitLines(to_string_pretty(OverridesValue(ov, orders))))
         \o LAYOUT_BLOCK_END \o <<NL>>

\* the locals of split_source_and_overrides
SplitStart ==
    [definition_lines |-> <<>>, layout_lines |-> <<>>, in_block |-> FALSE,
     found_block |-> FALSE, error |-> ""]

\* a line of the block with its comment prefix left on
WholeLine(line) == TrimStart(line)

\* a line of the block without its comment prefix
Segment(line) ==
    IF StartsWith(TrimStart(line), <<"%","%">>) THEN TrimStart(From(TrimStart(line), 3))
    ELSE TrimStart(line)

\* the body of the loop over the lines
SplitLine(st, line) ==
    IF eq_ignore_ascii_case(Trim(line), LAYOUT_BLOCK_START)
    THEN IF st.in_block
         THEN [st EXCEPT !.error = "nested sections are not supported"]
         ELSE [st EXCEPT !.in_block = TRUE, !.found_block = TRUE]
    ELSE IF eq_ignore_ascii_case(Trim(line), LAYOUT_BLOCK_END)
    THEN IF ~st.in_block
         THEN [st EXCEPT !.error = "end without a matching start"]
         ELSE [st EXCEPT !.in_block = FALSE]
    ELSE IF st.in_block
    THEN IF Trim(line) = <<>> THEN st
         ELSE [st EXCEPT !.layout_lines = Append(@, Segment(line))]
    ELSE [st EXCEPT !.definition_lines = Append(@, line)]

RECURSIVE SplitFrom(_, _, _)
SplitFrom(ls, k, st) ==
    IF k > Len(ls) \/ st.error # "" THEN st
    ELSE SplitFrom(ls, k + 1, SplitLine(st, ls[k]))

SplitFailed(error) ==
    [ok |-> FALSE, definition |-> <<>>, overrides |-> NoLayoutOverrides, error |-> error]

SplitDone(text, ov) == [ok |-> TRUE, definition |-> text, overrides |-> ov, error |-> ""]

\* the overrides of the block
BlockOverrides(st) ==
    IF ~st.found_block \/ Trim(JoinLines(st.layout_lines)) = <<>> THEN Some(NoLayoutOverrides)
    ELSE overrides_from_str(JoinLines(st.layout_lines))

\* the end of split_source_and_overrides
SplitEnd(source, st) ==
    IF st.error # "" THEN SplitFailed(st.error)
    ELSE IF st.in_block THEN SplitFailed("layout metadata block was not terminated")
    ELSE IF BlockOverrides(st) = None
    THEN SplitFailed("failed to parse embedded oxdraw layout block")
    ELSE SplitDone(JoinLines(st.definition_lines)
                       \o (IF EndsWith(source, <<NL>>) THEN <<NL>> ELSE <<>>),
                   BlockOverrides(st)[1])

\* split_source_and_overrides
split_source_and_overrides(source) ==
    SplitEnd(source, SplitFrom(SplitLines(source), 1, SplitStart))

-----------------------------------------------------------------------------
(* Database mode: the diagrams table of src/src/files.rs and the handlers of *)
(* src/src/serve.rs that look a diagram up by id.  A handler is two          *)
(* statements on the pool with an await between them, so the statements of   *)
(* two requests may alternate.                                               *)

\* the requests handled at the same time
RequestIds == {1, 2}

\* the ids the table gives out
DiagramIds == {1, 2}

\* str::split(sep)
RECURSIVE Split(_, _)
Split(s, sep) ==
    IF Find(s, <<sep>>) = 0 THEN <<s>>
    ELSE <<SubSeq(s, 1, Find(s, <<sep>>) - 1)>> \o Split(From(s, Find(s, <<sep>>) + 1), sep)

\* str::split_once('='): the name and the value of a cookie
split_once(s) ==
    IF Find(s, <<"=">>) = 0 THEN None
    ELSE Some([name |-> SubSeq(s, 1, Find(s, <<"=">>) - 1), value |-> From(s, Find(s, <<"=">>) + 1)])

\* the name of the session cookie
SessionCookie == <<"o","x","d","r","a","w","_","s","e","s","s","i","o","n">>

\* find_map over the cookies of the header
RECURSIVE FindSession(_)
FindSession(cookies) ==
    IF cookies = <<>> THEN None
    ELSE IF split_once(Trim(Head(cookies))) # None
            /\ split_once(Trim(Head(cookies)))[1].name = SessionCookie
    THEN Some(split_once(Trim(Head(cookies)))[1].value)
    ELSE FindSession(Tail(cookies))

\* extract_session_id: header is the Cookie header of the request, None when
\* the request has none
extract_session_id(header) ==
    IF header = None THEN None ELSE FindSession(Split(header[1], ";"))

\* the rows of the sessions table
Sessions == {<<"s","1">>, <<"s","2">>}

\* Session::get_by_id(..).is_some()
session_exists(session_id) == session_id \in Sessions

\* the file name of a diagram with the name
Filename(name) == IF EndsWith(name, <<".","m","m","d">>) THEN name ELSE name \o <<".","m","m","d">>

\* a row of the diagrams table
Row(session_id, name, content) ==
    [session_id |-> session_id, name |-> name, filename |-> Filename(name),
     content |-> content, is_deleted |-> FALSE]

\* the DiagramFile of a row
DiagramFileOf(id, row) ==
    [id |-> id, session_id |-> row.session_id, name |-> row.name, filename |-> row.filename,
     content |-> row.content]

\* DiagramFile::get_by_id: WHERE id = ? AND session_id = ? AND is_deleted = 0
get_by_id(db, id, session_id) ==
    IF id \in DOMAIN db.rows /\ db.rows[id].session_id = session_id /\ ~db.rows[id].is_deleted
    THEN Some(DiagramFileOf(id, db.rows[id]))
    ELSE None

\* DiagramFile::list_by_session: the ids of the rows it returns
list_by_session(db, session_id) ==
    {id \in DOMAIN db.rows : db.rows[id].session_id = session_id /\ ~db.rows[id].is_deleted}

\* DiagramFile::count_by_session
count_by_session(db, session_id) ==
    Cardinality({id \in DOMAIN db.rows :
                    db.rows[id].session_id = session_id /\ ~db.rows[id].is_deleted})

\* INSERT INTO diagrams: the id is the one after the last one given out
Inserted(db, row) == [rows |-> db.rows @@ ((db.seq + 1) :> row), seq |-> db.seq + 1]

\* DiagramFile::create
create(db, session_id, name, content) == Inserted(db, Row(session_id, name, content))

\* DiagramFile::update_content: UPDATE diagrams SET content = ? WHERE id = ?
update_content(db, self, content) ==
    IF self.id \in DOMAIN db.rows THEN [db EXCEPT !.rows[self.id].content = content] ELSE db

\* update_diagram_name: UPDATE diagrams SET name = ?, filename = ? WHERE id = ?
update_name(db, id, name) ==
    IF id \in DOMAIN db.rows
    THEN [db EXCEPT !.rows[id].name = name, !.rows[id].filename = Filename(name)]
    ELSE db

\* DiagramFile::delete: UPDATE diagrams SET is_deleted = 1 WHERE id = ?
delete(db, self) ==
    IF self.id \in DOMAIN db.rows THEN [db EXCEPT !.rows[self.id].is_deleted = TRUE] ELSE db

\* DiagramFile::duplicate with new_name = None
duplicate(db, self) ==
    Inserted(db, Row(self.session_id, self.name \o <<" ","(","c","o","p","y",")">>, self.content))

\* no request is being handled
NoRequest == [op |-> "none", at |-> "idle", session |-> None, id |-> 0, held |-> None]

\* no handler has returned or written a row
NoAccess == [hit |-> FALSE, own |-> TRUE, deleted |-> FALSE]

\* a handler of a request with the session returns or writes the row with
\* the id: whose it is and whether it is soft-deleted at that moment
Access(db, session_id, id) ==
    IF id \in DOMAIN db.rows
    THEN [hit |-> TRUE, own |-> db.rows[id].session_id = session_id,
          deleted |-> db.rows[id].is_deleted]
    ELSE NoAccess

\* the server is not in database mode
DbIdle ==
    /\ database = [rows |-> EmptyMap, seq |-> 0]
    /\ requests = [r \in RequestIds |-> NoRequest]
    /\ reached = NoAccess

\* the handlers that look a diagram up by id
LookupOps == {"get_diagram_by_id", "update_diagram_content", "update_diagram_name",
              "duplicate_diagram", "delete_diagram"}

\* the Cookie headers of the requests: none, the session cookie alone, the
\* session cookie after another one, and cookies with other names
CookiePool ==
    { None, Some(<<"o","x","d","r","a","w","_","s","e","s","s","i","o","n","=","s","1">>), Some(<<"t","h","e","m","e","=","d","a","r","k",";"," ","o","x","d","r","a","w","_","s","e","s","s","i","o","n","=","s","2">>),
      Some(<<"o","x","d","r","a","w","_","s","e","s","s","i","o","n","_","i","d","=","s","1">>), Some(<<"o","x","d","r","a","w","_","s","e","s","s","i","o","n","=","s","3">>) }

\* the request is answered with the status code
Responded(r, op, code) == [requests EXCEPT ![r] = NoRequest]

\* the request goes on to its second statement with the DiagramFile it found
Found(r, op, session_id, id, file) ==
    [requests EXCEPT ![r] = [op |-> op, at |-> "found", session |-> Some(session_id),
                             id |-> id, held |-> file]]

\* a handler up to and with DiagramFile::get_by_id (the requests are alike
\* and are taken up in the order of their numbers): 401 without a session
\* cookie, 404 when the lookup returns None; get_diagram_by_id returns the
\* diagram it found
Lookup ==
    /\ \E r \in RequestIds : \E op \in LookupOps : \E header \in CookiePool :
       \E id \in DiagramIds :
          /\ requests[r].at = "idle"
          /\ \A u \in RequestIds : u < r => requests[u].at # "idle"
          /\ \E session \in {extract_session_id(header)} :
                IF session = None
                THEN requests' = Responded(r, op, 401) /\ UNCHANGED reached
                ELSE IF op = "get_diagram_by_id" /\ ~session_exists(session[1])
                THEN requests' = Responded(r, op, 401) /\ UNCHANGED reached
                ELSE IF get_by_id(database, id, session[1]) = None
                THEN requests' = Responded(r, op, 404) /\ UNCHANGED reached
                ELSE IF op = "get_diagram_by_id"
                THEN /\ requests' = Responded(r, op, 200)
                     /\ reached' = Access(database, session[1], id)
                ELSE /\ requests' = Found(r, op, session[1], id,
                                          get_by_id(database, id, session[1]))
                     /\ UNCHANGED reached
    /\ UNCHANGED <<fileVars, database>>

\* the contents and the names the requests carry
ContentPool == {<<"g","r","a","p","h"," ","T","D","\n","B","\n">>}
NamePool == {<<"b">>}

\* update_diagram_content after the lookup
UpdateDiagramContent ==
    /\ \E r \in RequestIds : \E content \in ContentPool :
          /\ requests[r].at = "found" /\ requests[r].op = "update_diagram_content"
          /\ database' = update_content(database, requests[r].held[1], content)
          /\ reached' = Access(database, requests[r].session[1], requests[r].id)
          /\ requests' = Responded(r, requests[r].op, 204)
    /\ UNCHANGED fileVars

\* update_diagram_name after the lookup
UpdateDiagramName ==
    /\ \E r \in RequestIds : \E name \in NamePool :
          /\ requests[r].at = "found" /\ requests[r].op = "update_diagram_name"
          /\ database' = update_name(database, requests[r].id, name)
          /\ reached' = Access(database, requests[r].session[1], requests[r].id)
          /\ requests' = Responded(r, requests[r].op, 204)
    /\ UNCHANGED fileVars

\* duplicate_diagram after the lookup
DuplicateDiagram ==
    /\ \E r \in RequestIds :
          /\ requests[r].at = "found" /\ requests[r].op = "duplicate_diagram"
          /\ database.seq + 1 \in DiagramIds
          /\ database' = duplicate(database, requests[r].held[1])
          /\ reached' = Access(database, requests[r].session[1], requests[r].id)
          /\ requests' = Responded(r, requests[r].op, 200)
    /\ UNCHANGED fileVars

\* delete_diagram after the lookup
DeleteDiagram ==
    /\ \E r \in RequestIds :
          /\ requests[r].at = "found" /\ requests[r].op = "delete_diagram"
          /\ database' = delete(database, requests[r].held[1])
          /\ reached' = Access(database, requests[r].session[1], requests[r].id)
          /\ requests' = Responded(r, requests[r].op, 204)
    /\ UNCHANGED fileVars

\* create_diagram: 401 without the cookie of a session of the sessions table
CreateDiagram ==
    /\ \E r \in RequestIds : \E header \in CookiePool :
          /\ requests[r].at = "idle"
          /\ database.seq + 1 \in DiagramIds
          /\ \E session \in {extract_session_id(header)} :
                IF session = None \/ ~session_exists(session[1])
                THEN /\ requests' = Responded(r, "create_diagram", 401)
                     /\ UNCHANGED database
                ELSE /\ requests' = Responded(r, "create_diagram", 200)
                     /\ database' = create(database, session[1], <<"N","e","w"," ","D","i","a","g","r","a","m">>,
                                          <<"g","r","a","p","h"," ","T","D","\n","A","\n">>)
    /\ UNCHANGED <<fileVars, reached>>

\* Database::cleanup_expired: a row that was not updated for the expiration
\* time is taken out of the table
CleanupExpired ==
    /\ \E id \in DOMAIN database.rows :
          database' = [database EXCEPT !.rows = Without(@, id)]
    /\ UNCHANGED <<fileVars, requests, reached>>

(* ServeState: the tasks that run its handlers *)

\* the tasks that may run at the same time
TaskIds == {1, 2}

\* a task that has not been started
NoTask == [op |-> "none", at |-> "idle", arg |-> <<>>, definition |-> <<>>, ids |-> <<>>,
           before |-> <<>>, snapshot |-> <<>>, version |-> 0, result |-> ""]

NothingLoaded == [ok |-> FALSE, definition |-> <<>>, overrides |-> NoLayoutOverrides,
                  error |-> "none"]

NothingWritten == [calls |-> 0, taken |-> 0, last |-> 0, stale |-> FALSE]

\* no handler has been called
ServeIdle ==
    /\ source_file = <<>>
    /\ store = NoLayoutOverrides
    /\ source_lock = 0
    /\ tasks = [t \in TaskIds |-> NoTask]
    /\ loaded = NothingLoaded
    /\ written = NothingWritten
    /\ DbIdle

-----------------------------------------------------------------------------
(* Writing the file and reading it back *)

\* a task and the call it makes
Task(op, arg) == [NoTask EXCEPT !.op = op, !.arg = arg, !.at = "called"]

\* a task has changed the overrides under their lock and holds a clone of
\* them, which it is to write with the definition
Writing(task, text, before, after) ==
    [task EXCEPT !.at = "snapshot", !.definition = text, !.before = <<before>>,
                 !.snapshot = <<after>>, !.version = written.taken + 1]

\* a snapshot is written: which one, and whether a later one was written before it
Wrote(version) ==
    [written EXCEPT !.last = version, !.stale = @ \/ version < written.last]

\* the handlers that end in write_definition_with_overrides
WritingOps == {"write_definition_with_overrides", "remove_node", "remove_edge", "replace_source"}

\* ServeState::write_definition_with_overrides: the merged text is written
\* under the source lock
WriteDefinitionWithOverrides ==
    /\ \E t \in TaskIds :
          /\ tasks[t].at = "snapshot" /\ tasks[t].op \in WritingOps
          /\ source_lock = 0
          /\ \E orders \in MapOrders(tasks[t].snapshot[1]) :
                source_file' = merge_source_and_overrides(tasks[t].definition,
                                                          tasks[t].snapshot[1], orders)
          /\ tasks' = [tasks EXCEPT ![t].at = "done", ![t].result = "ok"]
          /\ written' = Wrote(tasks[t].version)
    /\ UNCHANGED <<diagramVars, store, source_lock, loaded>>

\* the file is read and split_source_and_overrides applied to its text
LoadOverrides ==
    /\ loaded = NothingLoaded
    /\ \A t \in TaskIds : tasks[t].at \in {"idle", "done"}
    /\ loaded' = split_source_and_overrides(source_file)
    /\ UNCHANGED <<parseVars, layoutVars, routeVars, editVars, renderVars, dbVars, source_file, store,
                   source_lock, tasks, written>>

-----------------------------------------------------------------------------
(* ServeState::apply_update and ServeState::apply_style_update *)

\* a map after the loop over an update: Stored(id) is the value the loop
\* leaves for the id, None when it leaves none
MapUpdate(map, ids, Stored(_)) ==
    [id \in {i \in DOMAIN map \cup ids : i \in ids => Stored(i) # None} |->
        IF id \in ids THEN Stored(id)[1] ELSE map[id]]

\* the match of the loop over update.edges
StoredEdge(value) == IF value # None /\ value[1].points # <<>> THEN value ELSE None

\* a field after a patch: an absent field of the patch leaves it as it is
Patched(field, change) == IF change = None THEN field ELSE change[1]

\* HashMap::remove(..).unwrap_or_default()
Current(map, id, default) == IF id \in DOMAIN map THEN map[id] ELSE default

PatchedNodeStyle(current, patch) ==
    [fill |-> Patched(current.fill, patch.fill),
     stroke |-> Patched(current.stroke, patch.stroke),
     text |-> Patched(current.text, patch.text),
     label_fill |-> Patched(current.label_fill, patch.label_fill),
     image_fill |-> Patched(current.image_fill, patch.image_fill)]

PatchedEdgeStyle(current, patch) ==
    [line |-> Patched(current.line, patch.line),
     color |-> Patched(current.color, patch.color),
     arrow |-> Patched(current.arrow, patch.arrow)]

\* NodeStyleOverride::is_empty, EdgeStyleOverride::is_empty
style_is_empty(style) == \A field \in DOMAIN style : style[field] = None

\* a patched style is put back even when it is empty
KeepStyle(style) == Some(style)

\* if current.is_empty() { remove } else { insert }
StoredStyle(style) == IF style_is_empty(style) THEN None ELSE Some(style)

\* the match of the loops over update.node_styles and update.edge_styles
StoredNodeStyle(map, id, value) ==
    IF value = None THEN None
    ELSE StoredStyle(PatchedNodeStyle(Current(map, id, NoNodeStyle), value[1]))

StoredEdgeStyle(map, id, value) ==
    IF value = None THEN None
    ELSE StoredStyle(PatchedEdgeStyle(Current(map, id, NoEdgeStyle), value[1]))

\* the overrides after the loops of apply_update
apply_update(ov, update) ==
    [ov EXCEPT !.nodes = MapUpdate(@, DOMAIN update.nodes, LAMBDA id : update.nodes[id]),
               !.edges = MapUpdate(@, DOMAIN update.edges,
                                   LAMBDA id : StoredEdge(update.edges[id]))]

\* the overrides after the loops of apply_style_update
apply_style_update(ov, update) ==
    [ov EXCEPT
        !.node_styles = MapUpdate(@, DOMAIN update.node_styles,
                            LAMBDA id : StoredNodeStyle(ov.node_styles, id,
                                                        update.node_styles[id])),
        !.edge_styles = MapUpdate(@, DOMAIN update.edge_styles,
                            LAMBDA id : StoredEdgeStyle(ov.edge_styles, id,
                                                        update.edge_styles[id]))]

\* a task may make a call: each task makes one, and the tasks, which are
\* alike, start in the order of their numbers
Callable(t) ==
    /\ tasks[t].at = "idle"
    /\ \A u \in TaskIds : u < t => tasks[u].at # "idle"
    /\ loaded = NothingLoaded

\* the task has changed the overrides under their lock and holds a clone of them
Snapshot(op, arg, before, after) ==
    [NoTask EXCEPT !.op = op, !.at = "snapshot", !.arg = arg, !.before = <<before>>,
                   !.snapshot = <<after>>, !.version = written.taken + 1]

\* the LayoutUpdate values apply_update is called with
UpdatePool ==
    { [nodes |-> (<<"A">> :> Some(Pt(1, 2))), edges |-> EmptyMap],
      [nodes |-> EmptyMap, edges |-> (<<"A"," ","-","-",">"," ","B">> :> Some([points |-> <<Pt(3, 4)>>]))],
      [nodes |-> EmptyMap, edges |-> (<<"A"," ","-","-",">"," ","B">> :> Some([points |-> <<>>]))],
      [nodes |-> (<<"A">> :> None) @@ (<<"B">> :> Some(Pt(5, 6))), edges |-> (<<"A"," ","-","-",">"," ","B">> :> None)] }

NoNodePatch == [fill |-> None, stroke |-> None, text |-> None, label_fill |-> None,
                image_fill |-> None]
NoEdgePatch == [line |-> None, color |-> None, arrow |-> None]

\* the StyleUpdate values apply_style_update is called with: a field set, a
\* field unset, a patch without fields, null for the id
StyleUpdatePool ==
    { [node_styles |-> (<<"A">> :> Some([NoNodePatch EXCEPT !.fill = Some(Some(<<"r","e","d">>))])),
       edge_styles |-> EmptyMap],
      [node_styles |-> (<<"A">> :> Some([NoNodePatch EXCEPT !.fill = Some(None)])),
       edge_styles |-> EmptyMap],
      [node_styles |-> (<<"A">> :> Some(NoNodePatch)), edge_styles |-> EmptyMap],
      [node_styles |-> (<<"A">> :> None), edge_styles |-> EmptyMap],
      [node_styles |-> EmptyMap,
       edge_styles |-> (<<"A"," ","-","-",">"," ","B">> :> Some([NoEdgePatch EXCEPT !.color = Some(None)]))] }

\* apply_update up to the call of rewrite_file_with_overrides
ApplyUpdate ==
    /\ \E t \in TaskIds :
          /\ Callable(t)
          /\ \E update \in UpdatePool :
                /\ store' = apply_update(store, update)
                /\ tasks' = [tasks EXCEPT ![t] = Snapshot("apply_update", update, store, store')]
    /\ written' = [written EXCEPT !.calls = @ + 1, !.taken = @ + 1]
    /\ UNCHANGED <<diagramVars, source_file, source_lock, loaded>>

\* apply_style_update up to the call of rewrite_file_with_overrides
ApplyStyleUpdate ==
    /\ \E t \in TaskIds :
          /\ Callable(t)
          /\ \E update \in StyleUpdatePool :
                /\ store' = apply_style_update(store, update)
                /\ tasks' = [tasks EXCEPT
                                ![t] = Snapshot("apply_style_update", update, store, store')]
    /\ written' = [written EXCEPT !.calls = @ + 1, !.taken = @ + 1]
    /\ UNCHANGED <<diagramVars, source_file, source_lock, loaded>>

\* the file after rewrite_file_with_overrides: the definition of the file's
\* text merged with the snapshot; nothing is written when the text has no
\* well-formed block
Rewritten(found, snapshot, orders) ==
    IF found.ok THEN merge_source_and_overrides(found.definition, snapshot, orders)
    ELSE source_file

\* rewrite_file_with_overrides, under the source lock
RewriteFileWithOverrides ==
    /\ \E t \in TaskIds :
          /\ tasks[t].at = "snapshot"
          /\ tasks[t].op \in {"apply_update", "apply_style_update"}
          /\ source_lock = 0
          /\ \E found \in {split_source_and_overrides(source_file)} :
                /\ \E orders \in MapOrders(tasks[t].snapshot[1]) :
                      source_file' = Rewritten(found, tasks[t].snapshot[1], orders)
                /\ tasks' = [tasks EXCEPT ![t].at = "done",
                                          ![t].result = IF found.ok THEN "ok" ELSE "error"]
                /\ written' = IF found.ok THEN Wrote(tasks[t].version) ELSE written
    /\ UNCHANGED <<diagramVars, store, source_lock, loaded>>

-----------------------------------------------------------------------------
(* ServeState::remove_node, remove_edge, replace_source and                  *)
(* prune_overrides_for.  Diagram::parse is run by the parser's actions on    *)
(* the diagram of the one task that is parsing; what a task keeps of its     *)
(* diagram after that (the ids and the text of to_definition) is in its      *)
(* record.                                                                   *)

\* the node ids and edge identifiers prune_overrides_for and replace_source
\* collect from a diagram
IdsOf(ns, es) ==
    [nodes |-> DOMAIN ns, edges |-> {edge_identifier(es[i]) : i \in 1..Len(es)}]

\* a map with every entry kept
RetainAll(map, ids) == map

\* HashMap::retain(|id, _| ids.contains(id))
Retained(map, ids) == [id \in DOMAIN map \cap ids |-> map[id]]

\* LayoutOverrides::prune
prune(ov, ids) ==
    [nodes |-> Retained(ov.nodes, ids.nodes),
     edges |-> Retained(ov.edges, ids.edges),
     node_styles |-> Retained(ov.node_styles, ids.nodes),
     edge_styles |-> Retained(ov.edge_styles, ids.edges)]

\* contents.lines().any(|line| line.trim().eq_ignore_ascii_case(LAYOUT_BLOCK_START))
has_block(contents) ==
    \E i \in 1..Len(SplitLines(contents)) :
        eq_ignore_ascii_case(Trim(SplitLines(contents)[i]), LAYOUT_BLOCK_START)

\* no task is running Diagram::parse and the file is not being read back
ParserFree ==
    /\ \A t \in TaskIds : tasks[t].at # "parsing"
    /\ loaded = NothingLoaded

\* Diagram::parse is called on a text
ParseStart(text) ==
    /\ pc' = "header"
    /\ pass' = 1
    /\ definition' = text
    /\ lines' = <<>>
    /\ direction' = "none"
    /\ nodes' = EmptyMap
    /\ order' = <<>>
    /\ edges' = <<>>
    /\ node_membership' = EmptyMap
    /\ subgraph_stack' = <<>>
    /\ top_subgraphs' = <<>>
    /\ seen_subgraph_ids' = {}
    /\ subgraph_counter' = 0
    /\ subgraphs' = <<>>
    /\ skipped' = <<>>
    /\ first' = NoDiagram

\* no diagram is being parsed
ParserIdle ==
    /\ pc = "idle"
    /\ pass = 1
    /\ definition = <<>>
    /\ lines = <<>>
    /\ direction = "none"
    /\ nodes = EmptyMap
    /\ order = <<>>
    /\ edges = <<>>
    /\ node_membership = EmptyMap
    /\ subgraph_stack = <<>>
    /\ top_subgraphs = <<>>
    /\ seen_subgraph_ids = {}
    /\ subgraph_counter = 0
    /\ subgraphs = <<>>
    /\ skipped = <<>>
    /\ first = NoDiagram

\* remove_node and remove_edge take the source lock, read the file and call
\* Diagram::parse on its whole text
LockAndParse(t, op, arg) ==
    /\ Callable(t)
    /\ ParserFree
    /\ source_lock = 0
    /\ source_lock' = t
    /\ tasks' = [tasks EXCEPT ![t] = [Task(op, arg) EXCEPT !.at = "parsing"]]
    /\ written' = [written EXCEPT !.calls = @ + 1]
    /\ ParseStart(source_file)
    /\ UNCHANGED <<layoutVars, routeVars, editVars, renderVars, dbVars, source_file, store, loaded>>

\* the call returns with the value and lets go of the source lock if it holds it
Returned(t, value) ==
    /\ tasks' = [tasks EXCEPT ![t].at = "done", ![t].result = value]
    /\ source_lock' = IF source_lock = t THEN 0 ELSE source_lock
    /\ UNCHANGED <<diagramVars, source_file, store, loaded, written>>

\* the text of the edited diagram is written and the lock let go; the task
\* goes on to prune_overrides_for with its diagram
RewrittenLocked(t) ==
    /\ source_file' = to_definition'
    /\ source_lock' = 0
    /\ tasks' = [tasks EXCEPT ![t].at = "removed", ![t].definition = to_definition',
                              ![t].ids = <<IdsOf(nodes', edges')>>]
    /\ UNCHANGED <<store, loaded, written>>

\* the ids the handlers are called with
RemoveNodePool == {<<"A">>, <<"Q">>}
RemoveEdgePool == {<<"A"," ","-","-",">"," ","B">>, <<"Q"," ","-","-",">"," ","Q">>}

\* the texts replace_source is called with: without a block, with a block
\* that names a node the diagram does not have, without a header, and with a
\* block that is left open
SourcePool ==
    { <<"g","r","a","p","h"," ","T","D","\n","s","u","b","g","r","a","p","h"," ","S","\n","A","-","-",">","C","\n","e","n","d","\n">>,
      <<"g","r","a","p","h"," ","L","R","\n","A","\n","%","%"," ","o","x","d","r","a","w","-","l","a","y","o","u","t","\n","%","%"," ","{","\n","%","%"," "," "," ","\"","n","o","d","e","s","\"",":"," ","{","\n","%","%"," "," "," "," "," ","\"","Y","\"",":"," ","{","\n","%","%"," "," "," "," "," "," "," ","\"","x","\"",":"," ","1",".","0",",","\n","%","%"," "," "," "," "," "," "," ","\"","y","\"",":"," ","2",".","0","\n","%","%"," "," "," "," "," ","}","\n","%","%"," "," "," ","}","\n","%","%"," ","}","\n","%","%"," ","o","x","d","r","a","w","-","l","a","y","o","u","t","-","e","n","d","\n">>,
      <<"A","-","-",">","B","\n">>,
      <<"g","r","a","p","h"," ","T","D","\n","A","\n","%","%"," ","o","x","d","r","a","w","-","l","a","y","o","u","t","\n","%","%"," ","{","}","\n">> }

\* ServeState::remove_node up to Diagram::parse
RemoveNodeBegin ==
    \E t \in TaskIds : \E node_id \in RemoveNodePool : LockAndParse(t, "remove_node", node_id)

\* ServeState::remove_node from the result of Diagram::parse to the end of
\* the block that holds the source lock
ServeRemoveNode ==
    \E t \in TaskIds :
       /\ tasks[t].at = "parsing" /\ tasks[t].op = "remove_node"
       /\ pc \in {"parsed", "failed"}
       /\ IF pc = "failed"
          THEN Returned(t, "error")
          ELSE IF Cardinality(DOMAIN nodes) = 1 /\ tasks[t].arg \in DOMAIN nodes
          THEN Returned(t, "error")
          ELSE IF tasks[t].arg \notin DOMAIN nodes
          THEN Returned(t, "false")
          ELSE /\ nodes' = Without(nodes, tasks[t].arg)
               /\ order' = RetainOthers(order, tasks[t].arg)
               /\ edges' = RetainEdges(edges, tasks[t].arg)
               /\ node_membership' = Without(node_membership, tasks[t].arg)
               /\ subgraphs' = prune_node_from_subgraphs(subgraphs, tasks[t].arg)
               /\ UNCHANGED <<pc, pass, definition, lines, direction, subgraph_stack,
                              top_subgraphs, seen_subgraph_ids, subgraph_counter, skipped,
                              first, layoutVars, routeVars, editVars, renderVars, dbVars>>
               /\ RewrittenLocked(t)

\* ServeState::remove_edge up to Diagram::parse
RemoveEdgeBegin ==
    \E t \in TaskIds : \E edge_id \in RemoveEdgePool : LockAndParse(t, "remove_edge", edge_id)

\* ServeState::remove_edge from the result of Diagram::parse to the end of
\* the block that holds the source lock
ServeRemoveEdge ==
    \E t \in TaskIds :
       /\ tasks[t].at = "parsing" /\ tasks[t].op = "remove_edge"
       /\ pc \in {"parsed", "failed"}
       /\ IF pc = "failed"
          THEN Returned(t, "error")
          ELSE IF Len(RetainOtherEdges(edges, tasks[t].arg)) = Len(edges)
          THEN Returned(t, "false")
          ELSE /\ edges' = RetainOtherEdges(edges, tasks[t].arg)
               /\ UNCHANGED <<pc, pass, definition, lines, direction, nodes, order,
                              node_membership, subgraph_stack, top_subgraphs,
                              seen_subgraph_ids, subgraph_counter, subgraphs, skipped,
                              first, layoutVars, routeVars, editVars, renderVars, dbVars>>
               /\ RewrittenLocked(t)

\* ServeState::prune_overrides_for up to write_definition_with_overrides
PruneOverridesFor ==
    /\ \E t \in TaskIds :
          /\ tasks[t].at = "removed"
          /\ store' = prune(store, tasks[t].ids[1])
          /\ tasks' = [tasks EXCEPT ![t] = Writing(@, @.definition, store, store')]
    /\ written' = [written EXCEPT !.taken = @ + 1]
    /\ UNCHANGED <<diagramVars, source_file, source_lock, loaded>>

\* ServeState::replace_source up to Diagram::parse
ReplaceSourceBegin ==
    \E t \in TaskIds : \E contents \in SourcePool :
       /\ Callable(t)
       /\ ParserFree
       /\ written' = [written EXCEPT !.calls = @ + 1]
       /\ \E found \in {split_source_and_overrides(contents)} :
             IF found.ok
             THEN /\ tasks' = [tasks EXCEPT
                                  ![t] = [Task("replace_source", contents) EXCEPT
                                             !.at = "parsing",
                                             !.definition = found.definition,
                                             !.before = <<found.overrides>>]]
                  /\ ParseStart(found.definition)
             ELSE /\ tasks' = [tasks EXCEPT
                                  ![t] = [Task("replace_source", contents) EXCEPT
                                             !.at = "done", !.result = "error"]]
                  /\ UNCHANGED parseVars
       /\ UNCHANGED <<layoutVars, routeVars, editVars, renderVars, dbVars, source_file, store,
                      source_lock, loaded>>

\* the overrides replace_source prunes: the ones of the block if the text
\* has one
Replacement(task, current) == IF has_block(task.arg) THEN task.before[1] ELSE current

\* ServeState::replace_source from the result of Diagram::parse to
\* write_definition_with_overrides
ReplaceSource ==
    \E t \in TaskIds :
       /\ tasks[t].at = "parsing" /\ tasks[t].op = "replace_source"
       /\ pc \in {"parsed", "failed"}
       /\ IF pc = "failed"
          THEN Returned(t, "error")
          ELSE /\ store' = prune(Replacement(tasks[t], store), IdsOf(nodes, edges))
               /\ tasks' = [tasks EXCEPT
                               ![t] = Writing([@ EXCEPT !.ids = <<IdsOf(nodes, edges)>>],
                                              @.definition,
                                              Replacement(tasks[t], store), store')]
               /\ written' = [written EXCEPT !.taken = @ + 1]
               /\ UNCHANGED <<diagramVars, source_file, source_lock, loaded>>

\* ServeState::read_diagram once the calls have returned: the file is read,
\* split and its definition handed to Diagram::parse
ReadDiagram ==
    /\ loaded = NothingLoaded
    /\ \A t \in TaskIds : tasks[t].at \in {"idle", "done"}
    /\ \E t \in TaskIds : tasks[t].at = "done"
    /\ loaded' = split_source_and_overrides(source_file)
    /\ IF loaded'.ok THEN ParseStart(loaded'.definition) ELSE UNCHANGED parseVars
    /\ UNCHANGED <<layoutVars, routeVars, editVars, renderVars, dbVars, source_file, store,
                   source_lock, tasks, written>>

(* The definitions the parser is run on *)

HeaderPool ==
    { <<"g","r","a","p","h"," ","T","D">>,
      <<"g","r","a","p","h"," ","L","R">>,
      <<"g","r","a","p","h">>,
      <<"g","r","a","p","h"," ","X","X">>,
      <<"f","l","o","w"," ","T","D">> }

LinePool ==
    { <<"A">>,
      <<"B","(","x",")">>,
      <<"A","-","-",">","B">>,
      <<"B","-",".","-",">","|","l","|","A">>,
      <<"s","u","b","g","r","a","p","h"," ","S">>,
      <<"e","n","d">>,
      <<"[","x","]">>,
      <<"-","-",">","B">>,
      <<"A","-","-",">","e","n","d">>,
      <<"A","-",".","-",">","B","-","-",">","C">> }

Bodies == UNION {[1..n -> LinePool] : n \in 0..MaxLines}

Definitions == {JoinLines(<<h>> \o b) : h \in HeaderPool, b \in Bodies}

\* the parser before its first step
ParseIdle ==
    /\ pc = "header"
    /\ pass = 1
    /\ lines = <<>>
    /\ direction = "none"
    /\ nodes = EmptyMap
    /\ order = <<>>
    /\ edges = <<>>
    /\ node_membership = EmptyMap
    /\ subgraph_stack = <<>>
    /\ top_subgraphs = <<>>
    /\ seen_subgraph_ids = {}
    /\ subgraph_counter = 0
    /\ subgraphs = <<>>
    /\ skipped = <<>>
    /\ first = NoDiagram

InitParse ==
    /\ definition \in Definitions
    /\ ParseIdle
    /\ overrides = NoOverrides
    /\ LayoutIdle
    /\ RouteIdle
    /\ EditIdle
    /\ RenderIdle
    /\ ServeIdle

NextParse ==
    \/ ParseHeader
    \/ ParseSubgraphLine
    \/ ParseEndLine
    \/ ParseEdgeLine
    \/ ParseNodeLine
    \/ ParseFinish
    \/ ToDefinition

SpecParse == InitParse /\ [][NextParse]_vars

-----------------------------------------------------------------------------
(* The diagrams and overrides Diagram::layout is run on: the definition is    *)
(* parsed first, then laid out.                                               *)

\* number of blocks of lines after the header in a definition the layout is run on
MaxBlocks == 3

LayoutHeaderPool ==
    { <<"g","r","a","p","h"," ","T","D">>,
      <<"g","r","a","p","h"," ","B","T">>,
      <<"g","r","a","p","h"," ","L","R">>,
      <<"g","r","a","p","h"," ","R","L">> }

\* a block is a node line, an edge line, a whole subgraph, a subgraph left open,
\* or an end line
LayoutBlockPool ==
    { <<<<"A">>>>,
      <<<<"C">>>>,
      <<<<"A","-","-",">","B">>>>,
      <<<<"B","-","-",">","C">>>>,
      <<<<"A","-","-",">","C">>>>,
      <<<<"B","-","-",">","A">>>>,
      <<<<"A","-","-",">","A">>>>,
      <<<<"s","u","b","g","r","a","p","h"," ","S","1">>, <<"A">>, <<"e","n","d">>>>,
      <<<<"s","u","b","g","r","a","p","h"," ","S","2">>, <<"B">>, <<"e","n","d">>>>,
      <<<<"s","u","b","g","r","a","p","h"," ","S","3">>, <<"C">>, <<"s","u","b","g","r","a","p","h"," ","S","4">>, <<"D">>, <<"e","n","d">>, <<"e","n","d">>>>,
      <<<<"s","u","b","g","r","a","p","h"," ","S","5">>, <<"A">>>>,
      <<<<"e","n","d">>>> }

RECURSIVE Flatten(_)
Flatten(bs) == IF bs = <<>> THEN <<>> ELSE Head(bs) \o Flatten(Tail(bs))

LayoutBodies == {Flatten(b) : b \in UNION {[1..n -> LayoutBlockPool] : n \in 0..MaxBlocks}}

LayoutDefinitions == {JoinLines(<<h>> \o b) : h \in LayoutHeaderPool, b \in LayoutBodies}

\* node overrides: none, one for a node of the diagram, one for an id it may not have
NodeOverridePool ==
    { NoOverrides,
      [nodes |-> (<<"A">> :> Pt(300 * Scale, 50 * Scale)), edges |-> EmptyMap],
      [nodes |-> (<<"B">> :> Pt(190 * Scale, 150 * Scale)) @@ (<<"Z">> :> Pt(0, 0)),
       edges |-> EmptyMap] }

InitLayout ==
    /\ definition \in LayoutDefinitions
    /\ overrides \in NodeOverridePool
    /\ ParseIdle
    /\ LayoutIdle
    /\ RouteIdle
    /\ EditIdle
    /\ RenderIdle
    /\ ServeIdle

NextLayout ==
    \/ ParseHeader
    \/ ParseSubgraphLine
    \/ ParseEndLine
    \/ ParseEdgeLine
    \/ ParseNodeLine
    \/ ParseFinish
    \/ LayoutStart
    \/ LevelStep
    \/ LevelFallback
    \/ AssignPositions
    \/ SeparateSubgraph
    \/ ApplyOverrides

SpecLayout == InitLayout /\ [][NextLayout]_vars

-----------------------------------------------------------------------------
(* The diagrams and overrides the routes are computed on *)

RouteHeaderPool ==
    { <<"g","r","a","p","h"," ","T","D">>,
      <<"g","r","a","p","h"," ","L","R">> }

\* edges in both directions, a self-loop, a labelled edge, a third node
RouteBlockPool ==
    { <<<<"A","-","-",">","B">>>>,
      <<<<"B","-","-",">","A">>>>,
      <<<<"A","-","-",">","A">>>>,
      <<<<"A","-","-",">","|","l","|","B">>>>,
      <<<<"A","-","-",">","X">>>>,
      <<<<"X","-","-",">","B">>>>,
      <<<<"s","u","b","g","r","a","p","h"," ","S","1">>, <<"X">>, <<"e","n","d">>>> }

RouteBodies == {Flatten(b) : b \in UNION {[1..n -> RouteBlockPool] : n \in 0..MaxBlocks}}

RouteDefinitions == {JoinLines(<<h>> \o b) : h \in RouteHeaderPool, b \in RouteBodies}

\* none; both endpoints at one position; a third node on the line between the
\* endpoints; manual points for the edge from A to B
RouteOverridePool ==
    { NoOverrides,
      [nodes |-> (<<"A">> :> Pt(190 * Scale, 150 * Scale))
                 @@ (<<"B">> :> Pt(190 * Scale, 150 * Scale)),
       edges |-> EmptyMap],
      [nodes |-> (<<"A">> :> Pt(190 * Scale, 150 * Scale))
                 @@ (<<"B">> :> Pt(190 * Scale, 790 * Scale))
                 @@ (<<"X">> :> Pt(150 * Scale, 300 * Scale)),
       edges |-> EmptyMap],
      [nodes |-> EmptyMap,
       edges |-> (<<"A"," ","-","-",">"," ","B">>
                     :> <<Pt(400 * Scale, 200 * Scale), Pt(410 * Scale, 400 * Scale)>>)] }

InitRoute ==
    /\ definition \in RouteDefinitions
    /\ overrides \in RouteOverridePool
    /\ ParseIdle
    /\ LayoutIdle
    /\ RouteIdle
    /\ EditIdle
    /\ RenderIdle
    /\ ServeIdle

NextRoute ==
    \/ NextLayout
    \/ RoutesStart
    \/ RouteEdge
    \/ RoutesDone

SpecRoute == InitRoute /\ [][NextRoute]_vars

\* a bidirectional pair and two more nodes
TwiceBlockPool ==
    { <<<<"A","-","-",">","B">>>>,
      <<<<"B","-","-",">","A">>>>,
      <<<<"X","-","-",">","Y">>>>,
      <<<<"s","u","b","g","r","a","p","h"," ","S","1">>, <<"X">>, <<"e","n","d">>>> }

TwiceBodies == {Flatten(b) : b \in UNION {[1..n -> TwiceBlockPool] : n \in 0..MaxBlocks}}

TwiceDefinitions ==
    {JoinLines(<<<<"g","r","a","p","h"," ","T","D">>>> \o b) : b \in TwiceBodies}

\* none; the two other nodes placed beside the line between A and B
TwiceOverridePool ==
    { NoOverrides,
      [nodes |-> (<<"A">> :> Pt(190 * Scale, 150 * Scale))
                 @@ (<<"B">> :> Pt(190 * Scale, 790 * Scale))
                 @@ (<<"X">> :> Pt(150 * Scale, 300 * Scale))
                 @@ (<<"Y">> :> Pt(170 * Scale, 400 * Scale)),
       edges |-> EmptyMap] }

InitTwice ==
    /\ definition \in TwiceDefinitions
    /\ overrides \in TwiceOverridePool
    /\ ParseIdle
    /\ LayoutIdle
    /\ RouteIdle
    /\ EditIdle
    /\ RenderIdle
    /\ ServeIdle

NextTwice ==
    \/ NextRoute
    \/ LayoutAgain

SpecTwice == InitTwice /\ [][NextTwice]_vars

-----------------------------------------------------------------------------
(* The diagrams that are edited after the parse *)

EditDefinitions ==
    {JoinLines(<<<<"g","r","a","p","h"," ","T","D">>>> \o b) : b \in LayoutBodies}

InitEdit ==
    /\ definition \in EditDefinitions
    /\ overrides = NoOverrides
    /\ ParseIdle
    /\ LayoutIdle
    /\ RouteIdle
    /\ EditIdle
    /\ RenderIdle
    /\ ServeIdle

NextEdit ==
    \/ ParseHeader
    \/ ParseSubgraphLine
    \/ ParseEndLine
    \/ ParseEdgeLine
    \/ ParseNodeLine
    \/ ParseFinish
    \/ RemoveNode
    \/ RemoveEdge

SpecEdit == InitEdit /\ [][NextEdit]_vars

-----------------------------------------------------------------------------
(* The diagrams whose edges are removed by identifier and then routed: edges *)
(* that differ in label or arrow only                                        *)

IdentityBlockPool ==
    { <<<<"A","-","-",">","B">>>>,
      <<<<"A","-","-",">","|","l","|","B">>, <<"A","-","-",">","B">>>>,
      <<<<"A","-",".","-",">","B">>>>,
      <<<<"B","-","-",">","A">>>>,
      <<<<"s","u","b","g","r","a","p","h"," ","S","1">>, <<"A">>, <<"e","n","d">>>> }

IdentityBodies == {Flatten(b) : b \in UNION {[1..n -> IdentityBlockPool] : n \in 0..MaxBlocks}}

IdentityDefinitions ==
    {JoinLines(<<<<"g","r","a","p","h"," ","T","D">>>> \o b) : b \in IdentityBodies}

InitIdentity ==
    /\ definition \in IdentityDefinitions
    /\ overrides = NoOverrides
    /\ ParseIdle
    /\ LayoutIdle
    /\ RouteIdle
    /\ EditIdle
    /\ RenderIdle
    /\ ServeIdle

NextIdentity ==
    \/ NextRoute
    \/ RemoveEdge

SpecIdentity == InitIdentity /\ [][NextIdentity]_vars

-----------------------------------------------------------------------------
(* The diagrams, backgrounds and styles that are rendered *)

\* nodes, edges and a subgraph, with labels that hold markup characters
RenderBlockPool ==
    { <<<<"A">>>>,
      <<<<"B","[","<","]">>>>,
      <<<<"A","-","-",">","|","&","|","B">>>>,
      <<<<"B","-","-",">","A">>>>,
      <<<<"s","u","b","g","r","a","p","h"," ","S","[","'","]">>, <<"A">>, <<"e","n","d">>>> }

RenderBodies == {Flatten(b) : b \in UNION {[1..n -> RenderBlockPool] : n \in 0..MaxBlocks}}

RenderDefinitions ==
    {JoinLines(<<<<"g","r","a","p","h"," ","T","D">>>> \o b) : b \in RenderBodies}

BackgroundPool == { <<"w","h","i","t","e">>, <<"\"",">">> }

\* none; colours for node A; a colour for the edge from B to A
StylePool ==
    { NoStyles,
      [node_styles |-> (<<"A">> :> [fill |-> Some(<<"#","f","f","f">>), stroke |-> None,
                                    text |-> Some(<<"\"","<">>)]),
       edge_styles |-> EmptyMap],
      [node_styles |-> EmptyMap,
       edge_styles |-> (<<"B"," ","-","-",">"," ","A">> :> [color |-> Some(<<"r","e","d","\"">>)])] }

InitRender ==
    /\ definition \in RenderDefinitions
    /\ overrides = NoOverrides
    /\ ParseIdle
    /\ LayoutIdle
    /\ RouteIdle
    /\ EditIdle
    /\ svg = <<>>
    /\ render_call = 1
    /\ first_svg = <<>>
    /\ background \in BackgroundPool
    /\ styles \in StylePool
    /\ ServeIdle

NextRender ==
    \/ ParseHeader
    \/ ParseSubgraphLine
    \/ ParseEndLine
    \/ ParseEdgeLine
    \/ ParseNodeLine
    \/ ParseFinish
    \/ LayoutStart
    \/ LevelStep
    \/ LevelFallback
    \/ AssignPositions
    \/ SeparateSubgraph
    \/ ApplyOverrides
    \/ RoutesStart
    \/ RouteEdge
    \/ RoutesDone
    \/ AlignGeometry
    \/ RenderBackground
    \/ RenderSubgraphs
    \/ RenderEdges
    \/ RenderNodes
    \/ RenderAgain

SpecRender == InitRender /\ [][NextRender]_vars

-----------------------------------------------------------------------------
(* The diagrams that are aligned: labelled and paired edges, subgraphs, and  *)
(* nodes taken away before the layout                                        *)

AlignBlockPool ==
    { <<<<"A","-","-",">","|","l","|","B">>>>,
      <<<<"B","-","-",">","A">>>>,
      <<<<"s","u","b","g","r","a","p","h"," ","S","1">>, <<"X">>, <<"e","n","d">>>>,
      <<<<"s","u","b","g","r","a","p","h"," ","S","2">>,
        <<"s","u","b","g","r","a","p","h"," ","S","3">>, <<"A">>, <<"e","n","d">>,
        <<"e","n","d">>>>,
      <<<<"s","u","b","g","r","a","p","h"," ","S","4">>, <<"e","n","d">>>> }

AlignBodies == {Flatten(b) : b \in UNION {[1..n -> AlignBlockPool] : n \in 0..MaxBlocks}}

AlignDefinitions == {JoinLines(<<h>> \o b) : h \in RouteHeaderPool, b \in AlignBodies}

\* none; node A left of and above the origin; manual points far from the nodes
AlignOverridePool ==
    { NoOverrides,
      [nodes |-> (<<"A">> :> Pt(-(100 * Scale), -(40 * Scale))), edges |-> EmptyMap],
      [nodes |-> EmptyMap,
       edges |-> (<<"A"," ","-","-",">"," ","B">>
                     :> <<Pt(900 * Scale, 200 * Scale), Pt(410 * Scale, 1400 * Scale)>>)] }

InitAlign ==
    /\ definition \in AlignDefinitions
    /\ overrides \in AlignOverridePool
    /\ ParseIdle
    /\ LayoutIdle
    /\ RouteIdle
    /\ EditIdle
    /\ RenderIdle
    /\ ServeIdle

NextAlign ==
    \/ NextRoute
    \/ RemoveNode
    \/ AlignGeometry

SpecAlign == InitAlign /\ [][NextAlign]_vars

-----------------------------------------------------------------------------
(* The diagrams that are leveled to the end: cycles, self-loops, duplicate   *)
(* edges, a root before a cycle.  compute_auto_layout is sequential code:    *)
(* whenever a step of it can be taken it is taken, which is weak fairness of *)
(* its steps.                                                                *)

LevelingBlockPool ==
    { <<<<"A","-","-",">","B">>, <<"B","-","-",">","A">>>>,
      <<<<"A","-","-",">","A">>>>,
      <<<<"A","-","-",">","B">>>>,
      <<<<"C","-","-",">","A">>>>,
      <<<<"s","u","b","g","r","a","p","h"," ","S","1">>, <<"C">>, <<"e","n","d">>>> }

LevelingBodies == {Flatten(b) : b \in UNION {[1..n -> LevelingBlockPool] : n \in 0..MaxBlocks}}

LevelingDefinitions == {JoinLines(<<h>> \o b) : h \in RouteHeaderPool, b \in LevelingBodies}

InitLeveling ==
    /\ definition \in LevelingDefinitions
    /\ overrides = NoOverrides
    /\ ParseIdle
    /\ LayoutIdle
    /\ RouteIdle
    /\ EditIdle
    /\ RenderIdle
    /\ ServeIdle

\* the steps of layout after its start
LayoutSteps ==
    \/ LevelStep
    \/ LevelFallback
    \/ AssignPositions
    \/ SeparateSubgraph
    \/ ApplyOverrides

SpecLeveling == InitLeveling /\ [][NextLayout]_vars /\ WF_vars(LayoutSteps)

-----------------------------------------------------------------------------
(* The definitions and overrides that are written to the file and read back, *)
(* and the files with a block that was written by hand                        *)

\* with and without a final newline, with several, empty, with "\r\n" line
\* ends, with an empty and an indented line, with a comment
BlockTextPool ==
    { <<"g","r","a","p","h"," ","T","D","\n","A","-","-",">","B">>,
      <<"g","r","a","p","h"," ","T","D","\n","A","-","-",">","B","\n">>,
      <<"g","r","a","p","h"," ","T","D","\n","A","-","-",">","B","\n","\n","\n">>,
      <<>>,
      <<"g","r","a","p","h"," ","T","D","\r","\n","A","-","-",">","B","\r","\n">>,
      <<"g","r","a","p","h"," ","T","D","\n","\n"," "," ","A","\n">>,
      <<"g","r","a","p","h"," ","T","D","\n","%","%"," ","n","o","t","e","\n","A","\n">> }

BlockOverridePool ==
    { NoLayoutOverrides,
      [NoLayoutOverrides EXCEPT !.nodes = (<<"A">> :> Pt(1, 2))],
      [NoLayoutOverrides EXCEPT !.nodes = (<<"A">> :> Pt(10, 20)) @@ (<<"B">> :> Pt(-3, 0))],
      [NoLayoutOverrides EXCEPT !.edges = (<<"A"," ","-","-",">"," ","B">> :> [points |-> <<Pt(1, 2), Pt(3, 4)>>])],
      [NoLayoutOverrides EXCEPT !.edges = (<<"A"," ","-","-",">"," ","B">> :> [points |-> <<>>])],
      [NoLayoutOverrides EXCEPT
          !.node_styles = (<<"A">> :> [NoNodeStyle EXCEPT !.fill = Some(<<"#","f","f","f">>),
                                                         !.text = Some(<<"a","\"","b","\\">>)])],
      [NoLayoutOverrides EXCEPT
          !.node_styles = (<<"A">> :> NoNodeStyle),
          !.edge_styles = (<<"A"," ","-","-",">"," ","B">> :> [NoEdgeStyle EXCEPT !.color = Some(<<"r","e","d">>)])],
      [nodes |-> (<<"A">> :> Pt(1, 2)),
       edges |-> (<<"A"," ","-","-",">"," ","B">> :> [points |-> <<Pt(5, 5)>>]),
       node_styles |-> (<<"B">> :> [NoNodeStyle EXCEPT !.stroke = Some(<<"b","l","u","e">>)]),
       edge_styles |-> (<<"A"," ","-","-",">"," ","B">> :> [NoEdgeStyle EXCEPT !.line = Some(<<"d","a","s","h","e","d">>),
                                                            !.arrow = Some(<<"b","o","t","h">>)])] }

\* a block in a block, an end before any start, a block left open, a block in
\* capitals and indented, an empty block, a block that is not JSON, and a
\* block that leaves maps out
HandWrittenPool ==
    { <<"g","r","a","p","h"," ","T","D","\n","A","\n","%","%"," ","o","x","d","r","a","w","-","l","a","y","o","u","t","\n","%","%"," ","o","x","d","r","a","w","-","l","a","y","o","u","t","\n","%","%"," ","{","}","\n","%","%"," ","o","x","d","r","a","w","-","l","a","y","o","u","t","-","e","n","d","\n">>,
      <<"g","r","a","p","h"," ","T","D","\n","A","\n","%","%"," ","o","x","d","r","a","w","-","l","a","y","o","u","t","-","e","n","d","\n">>,
      <<"g","r","a","p","h"," ","T","D","\n","A","\n","%","%"," ","o","x","d","r","a","w","-","l","a","y","o","u","t","\n","%","%"," ","{","}","\n">>,
      <<"g","r","a","p","h"," ","T","D","\n","A","\n"," "," ","%","%"," ","O","X","D","R","A","W","-","L","A","Y","O","U","T"," "," ","\n","\n","%","%","{","\n"," "," ","\"","n","o","d","e","s","\"",":"," ","{","}","\n","%","%"," ","}","\n","%","%"," ","O","x","d","r","a","w","-","L","a","y","o","u","t","-","E","n","d","\n","B","\n">>,
      <<"g","r","a","p","h"," ","T","D","\n","A","\n","%","%"," ","o","x","d","r","a","w","-","l","a","y","o","u","t","\n","%","%"," ","o","x","d","r","a","w","-","l","a","y","o","u","t","-","e","n","d","\n">>,
      <<"g","r","a","p","h"," ","T","D","\n","A","\n","%","%"," ","o","x","d","r","a","w","-","l","a","y","o","u","t","\n","%","%"," ","n","o","d","e","s","\n","%","%"," ","o","x","d","r","a","w","-","l","a","y","o","u","t","-","e","n","d","\n">>,
      <<"g","r","a","p","h"," ","T","D","\n","A","\n","%","%"," ","o","x","d","r","a","w","-","l","a","y","o","u","t","\n","%","%"," ","{","\n","%","%"," "," "," ","\"","n","o","d","e","s","\"",":"," ","{","\n","%","%"," "," "," "," "," ","\"","A","\"",":"," ","{","\n","%","%"," "," "," "," "," "," "," ","\"","x","\"",":"," ","7",".","0",",","\n","%","%"," "," "," "," "," "," "," ","\"","y","\"",":"," ","8",".","0","\n","%","%"," "," "," "," "," ","}","\n","%","%"," "," "," ","}","\n","%","%"," ","}","\n","%","%"," ","o","x","d","r","a","w","-","l","a","y","o","u","t","-","e","n","d","\n">> }

InitBlock ==
    /\ definition = <<>>
    /\ overrides = NoOverrides
    /\ ParseIdle
    /\ LayoutIdle
    /\ RouteIdle
    /\ EditIdle
    /\ RenderIdle
    /\ source_lock = 0
    /\ loaded = NothingLoaded
    /\ written = NothingWritten
    /\ DbIdle
    /\ \/ /\ source_file = <<>>
          /\ store \in BlockOverridePool
          /\ \E text \in BlockTextPool :
                tasks = [t \in TaskIds |->
                            IF t = 1
                            THEN [Task("write_definition_with_overrides", text) EXCEPT
                                     !.at = "snapshot", !.definition = text,
                                     !.snapshot = <<store>>]
                            ELSE NoTask]
       \/ /\ source_file \in HandWrittenPool
          /\ store = NoLayoutOverrides
          /\ tasks = [t \in TaskIds |-> NoTask]

NextBlock ==
    \/ WriteDefinitionWithOverrides
    \/ LoadOverrides

SpecBlock == InitBlock /\ [][NextBlock]_vars

\* the overrides the server starts with, none of them with an empty entry
StorePool ==
    { NoLayoutOverrides,
      [NoLayoutOverrides EXCEPT
          !.nodes = (<<"A">> :> Pt(1, 2)),
          !.node_styles = (<<"A">> :> [NoNodeStyle EXCEPT !.fill = Some(<<"r","e","d">>),
                                                         !.text = Some(<<"b","l","u","e">>)])],
      [NoLayoutOverrides EXCEPT
          !.edges = (<<"A"," ","-","-",">"," ","B">> :> [points |-> <<Pt(3, 4)>>]),
          !.node_styles = (<<"A">> :> [NoNodeStyle EXCEPT !.fill = Some(<<"r","e","d">>)]),
          !.edge_styles = (<<"A"," ","-","-",">"," ","B">> :> [NoEdgeStyle EXCEPT !.color = Some(<<"r","e","d">>)])] }

\* the server has loaded a file whose block holds its overrides
InitStore ==
    /\ definition = <<>>
    /\ overrides = NoOverrides
    /\ ParseIdle
    /\ LayoutIdle
    /\ RouteIdle
    /\ EditIdle
    /\ RenderIdle
    /\ source_lock = 0
    /\ loaded = NothingLoaded
    /\ written = NothingWritten
    /\ DbIdle
    /\ tasks = [t \in TaskIds |-> NoTask]
    /\ store \in StorePool
    /\ \E orders \in MapOrders(store) :
          source_file = merge_source_and_overrides(<<"g","r","a","p","h"," ","T","D","\n","A","-","-",">","B","\n">>, store, orders)

NextStore ==
    \/ ApplyUpdate
    \/ ApplyStyleUpdate
    \/ RewriteFileWithOverrides

SpecStore == InitStore /\ [][NextStore]_vars

\* the overrides the server holds when the handlers are called: entries of
\* the diagram's nodes and edges and entries of ids it does not have
ServeStorePool ==
    { [nodes |-> (<<"A">> :> Pt(1, 2)),
       edges |-> (<<"Z"," ","-","-",">"," ","Z">> :> [points |-> <<Pt(7, 8)>>]),
       node_styles |-> (<<"Z">> :> [NoNodeStyle EXCEPT !.fill = Some(<<"r","e","d">>)]),
       edge_styles |-> (<<"A"," ","-","-",">"," ","B">> :> [NoEdgeStyle EXCEPT !.color = Some(<<"r","e","d">>)])] }

\* the definitions of the file the server edits
ServeDefinitions == { <<"g","r","a","p","h"," ","T","D","\n","A","-","-",">","B","\n">>, <<"g","r","a","p","h"," ","T","D","\n","A","\n">> }

\* the server holds the overrides of the block of its file; no handler has
\* been called
InitServe ==
    /\ ParserIdle
    /\ overrides = NoOverrides
    /\ LayoutIdle
    /\ RouteIdle
    /\ EditIdle
    /\ RenderIdle
    /\ source_lock = 0
    /\ loaded = NothingLoaded
    /\ written = NothingWritten
    /\ DbIdle
    /\ tasks = [t \in TaskIds |-> NoTask]
    /\ store \in ServeStorePool
    /\ \E text \in ServeDefinitions : \E orders \in MapOrders(store) :
          source_file = merge_source_and_overrides(text, store, orders)

NextServe ==
    \/ ParseHeader
    \/ ParseSubgraphLine
    \/ ParseEndLine
    \/ ParseEdgeLine
    \/ ParseNodeLine
    \/ ParseFinish
    \/ ApplyUpdate
    \/ ApplyStyleUpdate
    \/ RewriteFileWithOverrides
    \/ RemoveNodeBegin
    \/ ServeRemoveNode
    \/ RemoveEdgeBegin
    \/ ServeRemoveEdge
    \/ PruneOverridesFor
    \/ ReplaceSourceBegin
    \/ ReplaceSource
    \/ WriteDefinitionWithOverrides
    \/ ReadDiagram

SpecServe == InitServe /\ [][NextServe]_vars

\* the table holds a diagram of the first session; no request is being handled
InitSessions ==
    /\ definition = <<>>
    /\ overrides = NoOverrides
    /\ ParseIdle
    /\ LayoutIdle
    /\ RouteIdle
    /\ EditIdle
    /\ RenderIdle
    /\ source_file = <<>>
    /\ store = NoLayoutOverrides
    /\ source_lock = 0
    /\ tasks = [t \in TaskIds |-> NoTask]
    /\ loaded = NothingLoaded
    /\ written = NothingWritten
    /\ database = create([rows |-> EmptyMap, seq |-> 0], <<"s","1">>, <<"a">>,
                         <<"g","r","a","p","h"," ","T","D","\n","A","\n">>)
    /\ requests = [r \in RequestIds |-> NoRequest]
    /\ reached = NoAccess

NextSessions ==
    \/ Lookup
    \/ UpdateDiagramContent
    \/ UpdateDiagramName
    \/ DuplicateDiagram
    \/ DeleteDiagram
    \/ CreateDiagram
    \/ CleanupExpired

SpecSessions == InitSessions /\ [][NextSessions]_vars

(* Claims about the parser and the serializer, checked under SpecParse *)

ParseEnded == pc \in {"parsed", "failed"}

\* the edge list as (from, kind, to, label) tuples
EdgeTuples(es) == [i \in 1..Len(es) |-> <<es[i].from, es[i].kind, es[i].to, es[i].label>>]

\* C1: for every definition Diagram::parse accepts, parsing the text to_definition
\* produces succeeds and yields the same node set, the same edge list as
\* (from, kind, to, label) tuples in the same order, and the same direction.
C1_RoundTrip ==
    (pass = 2 /\ ParseEnded) =>
        /\ pc = "parsed"
        /\ DOMAIN nodes = DOMAIN first.nodes
        /\ EdgeTuples(edges) = EdgeTuples(first.edges)
        /\ direction = first.direction

\* a line one of whose identifiers is empty: a subgraph header without an id, an
\* edge with an empty left or right operand, a node line with nothing before its
\* label bracket
EdgeHasEmptyOperand(parts) ==
    \/ ~NodeSpec_parse(parts.lhs).ok
    \/ IF StartsWith(parts.rhs, <<"|">>) /\ Find(Tail(parts.rhs), <<"|">>) # 0
       THEN ~NodeSpec_parse(From(Tail(parts.rhs), Find(Tail(parts.rhs), <<"|">>) + 1)).ok
       ELSE ~NodeSpec_parse(parts.rhs).ok

HasEmptyIdentifier(line) ==
    IF IsSubgraphLine(line)
    THEN ~parse_subgraph_header(From(line, Len(KwSubgraph) + 1)).ok
    ELSE IF IsEndLine(line) THEN FALSE
    ELSE IF IsEdgeLine(line) THEN EdgeHasEmptyOperand(EdgeSplit(line))
    ELSE ~NodeSpec_parse(line).ok

BodyLines(text) == Tail(SignificantLines(text))

\* C10: whenever a significant line holds a node operand or a subgraph header whose
\* identifier is empty, Diagram::parse returns an error: the line is never skipped
\* and no diagram is returned.
C10_EmptyIdentifierFatal ==
    (pass = 1 /\ pc = "parsed") =>
        \A i \in 1..Len(BodyLines(definition)) : ~HasEmptyIdentifier(BodyLines(definition)[i])

\* the line is the keyword graph followed by one of the five direction tokens
HeaderWellFormed(line) ==
    /\ Len(SplitWhitespace(line)) >= 2
    /\ ToLower(SplitWhitespace(line)[1]) = KwGraph
    /\ ToUpper(SplitWhitespace(line)[2]) \in
           {<<"T","D">>, <<"T","B">>, <<"B","T">>, <<"L","R">>, <<"R","L">>}

\* C11: Diagram::parse succeeds only if the first significant line is the graph
\* keyword with a direction token out of TD, TB, BT, LR, RL; a header without
\* direction token makes it fail.
C11_HeaderRule ==
    (pass = 1 /\ pc = "parsed") =>
        /\ SignificantLines(definition) # <<>>
        /\ HeaderWellFormed(SignificantLines(definition)[1])

-----------------------------------------------------------------------------
(* Claims about the auto layout, checked under SpecLayout *)

\* the targets of the edges that leave a node of S
Successors(S) == {edges[i].to : i \in {j \in 1..Len(edges) : edges[j].from \in S}}

RECURSIVE Descendants(_)
Descendants(S) == IF Successors(S) \subseteq S THEN S ELSE Descendants(S \cup Successors(S))

\* no node reaches itself along the edges
Acyclic == \A id \in DOMAIN nodes : id \notin Descendants(Successors({id}))

\* compute_auto_layout has assigned every level
Leveled == pc \in {"leveled", "separate", "positioned"}

\* separate_top_level_subgraphs has returned
Separated == pc = "positioned" \/ (pc = "separate" /\ sg_index > Len(subgraphs))

\* C2: for every acyclic diagram (duplicate edges allowed) and every edge A->B, the
\* level compute_auto_layout assigns to B is strictly greater than the level of A.
C2_LevelingInvariant ==
    (Leveled /\ Acyclic) =>
        \A i \in 1..Len(edges) : levels[edges[i].to] > levels[edges[i].from]

\* an acyclic diagram with a duplicated edge and a chain of two edges has been leveled
C2_Witness ==
    /\ Leveled /\ Acyclic
    /\ \E i, j \in 1..Len(edges) :
          i < j /\ edges[i].from = edges[j].from /\ edges[i].to = edges[j].to
    /\ \E i, j \in 1..Len(edges) : edges[i].to = edges[j].from

\* C4: for every node id N of the diagram, final_positions[N] is the override value
\* when the overrides hold a position for N, and auto_positions[N] when they do not.
C4_OverridePrecedence ==
    pc = "positioned" =>
        \A n \in DOMAIN nodes :
            /\ n \in DOMAIN final_positions
            /\ final_positions[n] = IF n \in DOMAIN overrides.nodes
                                    THEN overrides.nodes[n]
                                    ELSE auto_positions[n]

\* a layout with an overridden node moved off its auto position, a node without
\* override, and an override for an id the diagram does not have
C4_Witness ==
    /\ pc = "positioned"
    /\ \E n \in DOMAIN nodes \cap DOMAIN overrides.nodes :
          overrides.nodes[n] # auto_positions[n]
    /\ DOMAIN nodes \ DOMAIN overrides.nodes # {}
    /\ DOMAIN overrides.nodes \ DOMAIN nodes # {}

\* two rectangles share interior points
Overlap(a, b) ==
    a.min_x < b.max_x /\ a.max_x > b.min_x /\ a.min_y < b.max_y /\ a.max_y > b.min_y

\* the bounding box of the member nodes of the i-th top-level subgraph
TopLevelBounds(i) ==
    compute_group_bounds(gather_subgraph_nodes(subgraphs[i]), auto_positions)

\* C5: after separate_top_level_subgraphs, for any two top-level subgraphs with a
\* positioned member node, the member bounding boxes inflated by the separation
\* margin do not intersect.
C5_NoSubgraphOverlap ==
    Separated =>
        \A i, j \in 1..Len(subgraphs) :
            (i < j /\ TopLevelBounds(i) # None /\ TopLevelBounds(j) # None) =>
                ~Overlap(inflate(TopLevelBounds(i)[1], SUBGRAPH_SEPARATION),
                         inflate(TopLevelBounds(j)[1], SUBGRAPH_SEPARATION))

\* two top-level subgraphs were laid out side by side and the second one was shifted
C5_Witness ==
    /\ Separated
    /\ Len(subgraphs) >= 2
    /\ \E id \in DOMAIN auto_positions : auto_positions[id] # compute_positions(levels)[id]

\* C6: in the auto layout of any parsed diagram, also after the separation of the
\* top-level subgraphs, no two distinct nodes' rectangles overlap.
C6_NoNodeOverlap ==
    Separated =>
        \A a, b \in DOMAIN auto_positions :
            a # b => ~Overlap(node_rect(auto_positions[a]), node_rect(auto_positions[b]))

\* C7: in auto_positions of an acyclic diagram, for every edge A->B the source
\* precedes the target along the flow axis of the direction: TopDown y(A) < y(B),
\* BottomTop y(A) > y(B), LeftRight x(A) < x(B), RightLeft x(A) > x(B).
C7_FlowAxisOrdering ==
    (Separated /\ Acyclic) =>
        \A i \in 1..Len(edges) :
            CASE direction = "TopDown" ->
                    auto_positions[edges[i].from].y < auto_positions[edges[i].to].y
              [] direction = "BottomTop" ->
                    auto_positions[edges[i].from].y > auto_positions[edges[i].to].y
              [] direction = "LeftRight" ->
                    auto_positions[edges[i].from].x < auto_positions[edges[i].to].x
              [] direction = "RightLeft" ->
                    auto_positions[edges[i].from].x > auto_positions[edges[i].to].x

-----------------------------------------------------------------------------
(* Claims about the subgraph frames, checked under SpecLayout *)

\* the number of frames open after the i-th line
RECURSIVE Depth(_, _)
Depth(ls, i) ==
    IF i = 0 THEN 0
    ELSE Depth(ls, i - 1) + (IF IsSubgraphLine(ls[i]) THEN 1
                             ELSE IF IsEndLine(ls[i]) THEN -1 ELSE 0)

\* no end line without an open frame, no frame open after the last line
Balanced(ls) ==
    /\ \A i \in 1..Len(ls) : Depth(ls, i) >= 0
    /\ Depth(ls, Len(ls)) = 0

\* the end line that closes the frame opened by line i
MatchingEnd(ls, i) ==
    CHOOSE j \in (i + 1)..Len(ls) :
        /\ IsEndLine(ls[j]) /\ Depth(ls, j) = Depth(ls, i) - 1
        /\ \A k \in (i + 1)..(j - 1) : ~(IsEndLine(ls[k]) /\ Depth(ls, k) = Depth(ls, i) - 1)

\* the subgraph lines whose frame is open at line i
Enclosers(ls, i) ==
    {k \in 1..(i - 1) : IsSubgraphLine(ls[k]) /\ MatchingEnd(ls, k) > i}

\* the id declared by subgraph line i
SubgraphIdAt(ls, i) == parse_subgraph_header(From(ls[i], Len(KwSubgraph) + 1)).id

\* the id of the frame open below the one opened by line i; <<>> when none is
ParentIdAt(ls, i) ==
    IF Enclosers(ls, i) = {} THEN <<>>
    ELSE SubgraphIdAt(ls, CHOOSE k \in Enclosers(ls, i) : \A m \in Enclosers(ls, i) : m <= k)

\* the pairs <<id, id of the parent>> of a subgraph and its descendants
RECURSIVE Attachments(_, _)
Attachments(subgraph, parent) ==
    {<<subgraph.id, parent>>}
        \cup UNION {Attachments(subgraph.children[i], subgraph.id) :
                        i \in 1..Len(subgraph.children)}

ForestAttachments ==
    UNION {Attachments(subgraphs[i], <<>>) : i \in 1..Len(subgraphs)}

\* C12: Diagram::parse fails when an end line has no open frame or a frame is
\* still open after the last line; when it succeeds, every closed frame hangs
\* under the frame that was open below it, or in the top-level list
C12_SubgraphBalance ==
    (pass = 1 /\ pc = "parsed") =>
        /\ Balanced(BodyLines(definition))
        /\ ForestAttachments =
              {<<SubgraphIdAt(BodyLines(definition), i), ParentIdAt(BodyLines(definition), i)>> :
                   i \in {k \in 1..Len(BodyLines(definition)) :
                              IsSubgraphLine(BodyLines(definition)[k])}}

\* C12, witness: a diagram with a frame closed inside another frame was parsed
C12_Witness ==
    /\ pass = 1 /\ pc = "parsed"
    /\ \E a \in ForestAttachments : a[2] # <<>>

\* the node ids a line mentions: the id of a node line, the operands of an edge line
MentionedIds(line) ==
    IF IsEdgeLine(line)
    THEN IF parse_edge_line(line, [nodes |-> EmptyMap, order |-> <<>>,
                                   node_membership |-> EmptyMap,
                                   subgraph_stack |-> <<>>]).result = "edge"
         THEN {parse_edge_line(line, [nodes |-> EmptyMap, order |-> <<>>,
                                      node_membership |-> EmptyMap,
                                      subgraph_stack |-> <<>>]).edge.from,
               parse_edge_line(line, [nodes |-> EmptyMap, order |-> <<>>,
                                      node_membership |-> EmptyMap,
                                      subgraph_stack |-> <<>>]).edge.to}
         ELSE {}
    ELSE IF IsNodeLine(line) /\ NodeSpec_parse(line).ok THEN {NodeSpec_parse(line).id}
    ELSE {}

\* the first line that mentions the node
FirstMention(ls, id) ==
    CHOOSE i \in 1..Len(ls) :
        /\ id \in MentionedIds(ls[i])
        /\ \A k \in 1..(i - 1) : id \notin MentionedIds(ls[k])

\* the ids of the frames open at line i, outermost first
EnclosingIds(ls, i) ==
    [n \in 1..Cardinality(Enclosers(ls, i)) |->
        SubgraphIdAt(ls, CHOOSE k \in Enclosers(ls, i) :
                             Cardinality({m \in Enclosers(ls, i) : m <= k}) = n)]

\* the id of a subgraph of the forest, once for every entry of its direct node
\* list that is the node
RECURSIVE DirectOwners(_, _)
DirectOwners(sgs, id) ==
    IF sgs = <<>> THEN <<>>
    ELSE [n \in 1..Len(SelectSeq(Head(sgs).nodes, LAMBDA x : x = id)) |-> Head(sgs).id]
         \o DirectOwners(Head(sgs).children, id) \o DirectOwners(Tail(sgs), id)

\* the last element of the chain as the only owner, none for the empty chain
InnermostOnly(chain) == IF chain = <<>> THEN <<>> ELSE <<chain[Len(chain)]>>

-----------------------------------------------------------------------------
(* Claims about the edited diagram, checked under SpecEdit *)

\* the ids of a subgraph and its descendants, one entry per subgraph
RECURSIVE SubgraphIds(_)
SubgraphIds(sgs) ==
    IF sgs = <<>> THEN <<>>
    ELSE <<Head(sgs).id>> \o SubgraphIds(Head(sgs).children) \o SubgraphIds(Tail(sgs))

NoDuplicates(seq) == \A i, j \in 1..Len(seq) : seq[i] = seq[j] => i = j

\* C13: after parse and after any sequence of remove_node and
\* remove_edge_by_identifier calls, the endpoints of every edge are nodes, order
\* holds every node id exactly once and nothing else, and no two subgraphs of
\* the forest have the same id
C13_DiagramInvariants ==
    (pass = 1 /\ pc = "parsed") =>
        /\ \A i \in 1..Len(edges) :
              edges[i].from \in DOMAIN nodes /\ edges[i].to \in DOMAIN nodes
        /\ {order[i] : i \in 1..Len(order)} = DOMAIN nodes
        /\ NoDuplicates(order)
        /\ NoDuplicates(SubgraphIds(subgraphs))

\* C13, witness: two calls have removed nodes or edges from a parsed diagram,
\* which still has a node and a subgraph
C13_Witness ==
    /\ pass = 1 /\ pc = "parsed"
    /\ edits >= 2
    /\ subgraphs # <<>>
    /\ DOMAIN nodes # {}

-----------------------------------------------------------------------------
(* Claims about the routes *)

\* C3: calling layout twice on the same diagram with the same overrides gives
\* the same positions and the same routes, whatever order the maps are
\* iterated in
C3_LayoutDeterministic ==
    (pc = "routed" /\ call = 2) =>
        /\ auto_positions = first_layout.auto_positions
        /\ final_positions = first_layout.final_positions
        /\ routes = first_layout.routes

\* the route stored for the i-th edge
RouteOf(i) == routes[edge_identifier(edges[i])]

\* the tolerance of the containment property: the arrow extension and one pixel
ContainmentEps == EDGE_ARROW_EXTENSION + Scale

\* point lies within eps of the border of rectangle r
NearBoundary(point, r, eps) ==
    /\ contains(inflate(r, eps), point)
    /\ ~ /\ point.x > r.min_x + eps /\ point.x < r.max_x - eps
         /\ point.y > r.min_y + eps /\ point.y < r.max_y - eps

\* C8: after compute_routes the first point of every route lies on the border
\* of the source node, and the last point on the border of the target node, up
\* to a small epsilon; neither lies inside the node beyond it
C8_EndpointContainment ==
    pc = "routed" =>
        \A i \in 1..Len(edges) :
            /\ NearBoundary(RouteOf(i)[1], node_rect(final_positions[edges[i].from]),
                            ContainmentEps)
            /\ NearBoundary(RouteOf(i)[Len(RouteOf(i))],
                            node_rect(final_positions[edges[i].to]), ContainmentEps)

\* the i-th and the j-th edge are the only edges between their two nodes, one
\* in each direction, nothing is overridden and no other node is in their way
BidirectionalPair(i, j) ==
    /\ overrides = NoOverrides
    /\ edges[i].from # edges[i].to
    /\ edges[j].from = edges[i].to /\ edges[j].to = edges[i].from
    /\ EdgesBetween(edges[i].from, edges[i].to) = <<i>>
    /\ EdgesBetween(edges[j].from, edges[j].to) = <<j>>
    /\ \A k \in {i, j} :
          ~route_collides_with_nodes(edges[k],
               build_route(final_positions[edges[k].from],
                           MiddlePoints(final_positions, overrides, k),
                           final_positions[edges[k].to]),
               NodeBounds(final_positions))

\* the points of the route between its two ends lie strictly on the side `side`
\* of the line from a to b
OnSide(route, a, b, side) ==
    \A k \in 2..(Len(route) - 1) : Sign(orientation(a, b, route[k])) = side

\* the routes of a pair lie strictly on opposite sides of the line between the nodes
OppositeSides(i, j) ==
    \E side \in {-1, 1} :
        /\ OnSide(RouteOf(i), final_positions[edges[i].from],
                  final_positions[edges[i].to], side)
        /\ OnSide(RouteOf(j), final_positions[edges[i].from],
                  final_positions[edges[i].to], -side)

\* C9: the two edges of a bidirectional pair are routed as curved paths on
\* opposite sides of the straight line between the two nodes, which do not
\* overlap; each is the clipped start, three offset points and the clipped end
C9_BidirectionalPair ==
    pc = "routed" =>
        \A i, j \in 1..Len(edges) :
            BidirectionalPair(i, j) =>
                /\ Len(RouteOf(i)) = 5
                /\ Len(RouteOf(j)) = 5
                /\ OppositeSides(i, j)
                /\ ~routes_intersect(RouteOf(i), RouteOf(j))

\* C9, witness: a bidirectional pair has been routed
C9_Witness ==
    /\ pc = "routed"
    /\ \E i, j \in 1..Len(edges) :
          BidirectionalPair(i, j) /\ Len(RouteOf(i)) = 5 /\ OppositeSides(i, j)

\* C9 as stated: each route of a bidirectional pair has three points
C9_ThreePointPaths ==
    pc = "routed" =>
        \A i, j \in 1..Len(edges) :
            BidirectionalPair(i, j) => Len(RouteOf(i)) = 3 /\ Len(RouteOf(j)) = 3


-----------------------------------------------------------------------------
(* Claims about the rendered document, checked under SpecRender *)

\* the strings put into the elements written so far
Inserts == UNION {{svg[i].inserts[j] : j \in 1..Len(svg[i].inserts)} : i \in 1..Len(svg)}

\* C15: every string that comes from the user (the background, the ids and
\* labels of subgraphs, the labels of nodes and edges, and the colours of
\* node_styles and edge_styles) is written into the document as escape_xml
\* of it.
C15_XmlEscaping ==
    \A ins \in Inserts : ins.text = escape_xml(ins.raw)

\* C19: two calls of render_svg on the same diagram, background and overrides
\* write the same document.
C19_DeterministicSvg ==
    (pc = "rendered" /\ render_call = 2) => svg = first_svg

\* the place of a kind of element in the stated order
Rank(kind) ==
    CASE kind = "background" -> 1
      [] kind = "subgraph" -> 2
      [] kind = "edge_line" -> 3
      [] kind = "edge_label" -> 4
      [] kind = "node" -> 5

\* C20: the document holds the background, then the subgraph groups, then
\* the edge lines, then the edge labels, then the nodes: no element comes
\* after an element of a later kind.
C20_RenderOrder ==
    pc = "rendered" =>
        /\ svg # <<>> /\ svg[1].kind = "background"
        /\ \A i, j \in 1..Len(svg) : i < j => Rank(svg[i].kind) <= Rank(svg[j].kind)


-----------------------------------------------------------------------------
(* Claims about the aligned geometry, checked under SpecAlign *)

\* what is drawn from the geometry: the rectangles of the nodes, the points
\* of the routes, the boxes of the edge labels and the frames of the subgraphs
DrawnRects ==
    {node_rect(geometry.positions[id]) : id \in DOMAIN geometry.positions}
    \cup UNION {{PointRect(geometry.edges[id][k]) : k \in 1..Len(geometry.edges[id])} :
                   id \in DOMAIN geometry.edges}
    \cup {RectAround(label_center_for_route(geometry.edges[edge_identifier(edges[i])]),
                     measure_label_box(edges[i].label[1])) :
             i \in {j \in 1..Len(edges) : edges[j].label # None}}
    \cup {VisualRect(geometry.subgraphs[i]) : i \in 1..Len(geometry.subgraphs)}

\* the smallest coordinates of what the layout returned, frames included
LaidOutMin ==
    BoundsOf({node_rect(final_positions[id]) : id \in DOMAIN final_positions}
             \cup UNION {{PointRect(routes[id][k]) : k \in 1..Len(routes[id])} :
                            id \in DOMAIN routes}
             \cup {RectAround(label_center_for_route(routes[edge_identifier(edges[i])]),
                              measure_label_box(edges[i].label[1])) :
                      i \in {j \in 1..Len(edges) : edges[j].label # None}}
             \cup {VisualRect(compute_subgraph_visuals(subgraphs, final_positions)[i]) :
                      i \in 1..Len(compute_subgraph_visuals(subgraphs, final_positions))})

\* every position, route point and frame is moved by (dx, dy)
TranslatedBy(dx, dy) ==
    /\ DOMAIN geometry.positions = DOMAIN final_positions
    /\ \A id \in DOMAIN final_positions :
          geometry.positions[id] = Pt(final_positions[id].x + dx, final_positions[id].y + dy)
    /\ DOMAIN geometry.edges = DOMAIN routes
    /\ \A id \in DOMAIN routes :
          /\ Len(geometry.edges[id]) = Len(routes[id])
          /\ \A k \in 1..Len(routes[id]) :
                geometry.edges[id][k] = Pt(routes[id][k].x + dx, routes[id][k].y + dy)
    /\ Len(geometry.subgraphs) = Len(compute_subgraph_visuals(subgraphs, final_positions))
    /\ \A i \in 1..Len(geometry.subgraphs) :
          /\ geometry.subgraphs[i].x
                = compute_subgraph_visuals(subgraphs, final_positions)[i].x + dx
          /\ geometry.subgraphs[i].y
                = compute_subgraph_visuals(subgraphs, final_positions)[i].y + dy
          /\ geometry.subgraphs[i].width
                = compute_subgraph_visuals(subgraphs, final_positions)[i].width
          /\ geometry.subgraphs[i].height
                = compute_subgraph_visuals(subgraphs, final_positions)[i].height

\* the canvas holds everything drawn between its margins, with the smallest
\* coordinates on the margin, and has the stated size
InsideCanvas(drawn) ==
    /\ drawn.min_x = LAYOUT_MARGIN
    /\ drawn.min_y = LAYOUT_MARGIN
    /\ drawn.max_x <= geometry.width - LAYOUT_MARGIN
    /\ drawn.max_y <= geometry.height - LAYOUT_MARGIN
    /\ geometry.width = Max(drawn.max_x - drawn.min_x, NODE_WIDTH) + 2 * LAYOUT_MARGIN
    /\ geometry.height = Max(drawn.max_y - drawn.min_y, NODE_HEIGHT) + 2 * LAYOUT_MARGIN

\* C16: align_geometry fails when no node has a position; otherwise it moves
\* every node position, route point and subgraph frame by (margin - min_x,
\* margin - min_y), after which the node rectangles, route points, label
\* boxes and frames lie in [margin, width - margin] x [margin, height -
\* margin], touch the margin on the left and at the top, and width and height
\* are max(max - min, the size of a node) + 2 x margin.
C16_CanvasAlignment ==
    (pc \in {"aligned", "align_failed"}) =>
        IF DOMAIN final_positions = {} THEN pc = "align_failed" /\ ~geometry.ok
        ELSE /\ pc = "aligned" /\ geometry.ok
             /\ TranslatedBy(LAYOUT_MARGIN - LaidOutMin.min_x, LAYOUT_MARGIN - LaidOutMin.min_y)
             /\ InsideCanvas(BoundsOf(DrawnRects))

\* a diagram with a frame and a labelled edge has been moved
C16_Witness ==
    /\ pc = "aligned"
    /\ geometry.subgraphs # <<>>
    /\ \E i \in 1..Len(edges) : edges[i].label # None
    /\ geometry.positions # final_positions


-----------------------------------------------------------------------------
(* Claims about the manual routes, checked under SpecRoute *)

\* the manual points of the i-th edge
ManualPoints(i) == overrides.edges[edge_identifier(edges[i])]

\* the point is where the route was put at the node, or was moved from there
\* to the border of the node by the clipping
AtNode(point, center) ==
    point = center \/ NearBoundary(point, node_rect(center), ContainmentEps)

\* C18: the route of an edge with an entry in overrides.edges is the source,
\* the manual points in their order and the target; only its first and last
\* point are changed, by the clipping at the two nodes; the search for fewer
\* conflicts and the detours around nodes do not change it.
C18_ManualEdgeOverride ==
    pc = "routed" =>
        \A i \in 1..Len(edges) :
            edge_identifier(edges[i]) \in DOMAIN overrides.edges =>
                /\ Len(RouteOf(i)) = Len(ManualPoints(i)) + 2
                /\ SubSeq(RouteOf(i), 2, Len(RouteOf(i)) - 1) = ManualPoints(i)
                /\ AtNode(RouteOf(i)[1], final_positions[edges[i].from])
                /\ AtNode(RouteOf(i)[Len(RouteOf(i))], final_positions[edges[i].to])

\* an edge with manual points has been routed
C18_Witness ==
    /\ pc = "routed"
    /\ \E i \in 1..Len(edges) :
          /\ edge_identifier(edges[i]) \in DOMAIN overrides.edges
          /\ ManualPoints(i) # <<>>
          /\ RouteOf(i)[1] # final_positions[edges[i].from]


-----------------------------------------------------------------------------
(* Claims about the end of the layout, checked under SpecLeveling *)

\* every node of order has a level and a position
AllAssigned ==
    \A i \in 1..Len(order) : order[i] \in DOMAIN levels /\ order[i] \in DOMAIN auto_positions

\* C17: for every diagram, with cycles, self-loops and duplicate edges
\* too, a call of compute_auto_layout that has started comes to its end, and
\* every node then has a level and a position.
C17_LevelingTerminates ==
    (pc = "leveling") ~> (pc = "positioned" /\ AllAssigned)

\* a diagram with a cycle of two nodes, a self-loop and a duplicated edge,
\* some node of which was never dequeued, has been laid out
C17_Witness ==
    /\ pc = "positioned" /\ AllAssigned
    /\ visited # DOMAIN nodes
    /\ \E i, j \in 1..Len(edges) :
          /\ edges[i].from # edges[i].to
          /\ edges[j].from = edges[i].to /\ edges[j].to = edges[i].from
    /\ \E i \in 1..Len(edges) : edges[i].from = edges[i].to
    /\ \E i, j \in 1..Len(edges) :
          i < j /\ edges[i].from = edges[j].from /\ edges[i].to = edges[j].to


-----------------------------------------------------------------------------
(* Claims about the identifiers of edges, checked under SpecIdentity *)

\* the identifiers of the edges
IdentifiersOf(es) == {edge_identifier(es[i]) : i \in 1..Len(es)}

\* the places of the edges with another identifier
OthersIn(es, identifier) == {i \in 1..Len(es) : edge_identifier(es[i]) # identifier}

\* the edges at the places, in their order
Picked(es, places) ==
    [n \in 1..Cardinality(places) |->
        es[CHOOSE i \in places : Cardinality({j \in places : j < i}) = n - 1]]

\* the diagram the last call was made on
Before == last_edit.before[1]

\* C21: two edges with the same source, arrow and target have the same
\* identifier, whatever their labels and places in the list; a call of
\* remove_edge_by_identifier leaves the edges with another identifier, in
\* their order, and nothing else of the edges, leaves nodes, order and
\* subgraphs as they were, and returns true exactly when the list held an
\* edge with the identifier; the routes are one for each identifier.
C21_EdgeIdentity ==
    /\ \A i, j \in 1..Len(edges) :
          (edges[i].from = edges[j].from /\ edges[i].kind = edges[j].kind
              /\ edges[i].to = edges[j].to)
            => edge_identifier(edges[i]) = edge_identifier(edges[j])
    /\ last_edit.op = "remove_edge_by_identifier" =>
          /\ \A i \in 1..Len(edges) : edge_identifier(edges[i]) # last_edit.id
          /\ edges = Picked(Before.edges, OthersIn(Before.edges, last_edit.id))
          /\ nodes = Before.nodes /\ order = Before.order
          /\ subgraphs = Before.subgraphs /\ node_membership = Before.node_membership
          /\ last_edit.returned = (last_edit.id \in IdentifiersOf(Before.edges))
    /\ pc = "routed" => DOMAIN routes = IdentifiersOf(edges)

\* a call has removed two edges that differ in their labels, and the edges
\* that are left, two of them with one identifier, have been routed
C21_Witness ==
    /\ pc = "routed"
    /\ last_edit.op = "remove_edge_by_identifier" /\ last_edit.returned
    /\ Len(Before.edges) >= Len(edges) + 2
    /\ \E i, j \in 1..Len(Before.edges) :
          /\ edge_identifier(Before.edges[i]) = last_edit.id
          /\ edge_identifier(Before.edges[j]) = last_edit.id
          /\ Before.edges[i].label # Before.edges[j].label
    /\ Cardinality(DOMAIN routes) < Len(edges)


-----------------------------------------------------------------------------
(* Claims about what remove_node changes, checked under SpecEdit *)

\* the subgraphs of the forest, at every depth
RECURSIVE AllSubgraphs(_)
AllSubgraphs(sgs) ==
    {sgs[i] : i \in 1..Len(sgs)} \cup UNION {AllSubgraphs(sgs[i].children) : i \in 1..Len(sgs)}

\* the places of the edges that do not end at the node
EdgesAwayFrom(es, node_id) ==
    {i \in 1..Len(es) : es[i].from # node_id /\ es[i].to # node_id}

\* the node is gone from nodes, order and node_membership, the others are as before
NodeTakenOut(node_id) ==
    /\ DOMAIN nodes = DOMAIN Before.nodes \ {node_id}
    /\ \A id \in DOMAIN nodes : nodes[id] = Before.nodes[id]
    /\ order = SelectSeq(Before.order, LAMBDA id : id # node_id)
    /\ DOMAIN node_membership = DOMAIN Before.node_membership \ {node_id}
    /\ \A id \in DOMAIN node_membership : node_membership[id] = Before.node_membership[id]

\* the subgraph that held the node holds its other nodes, if it is still there
OwnerPruned(node_id) ==
    \A old \in AllSubgraphs(Before.subgraphs) :
        (\E i \in 1..Len(old.nodes) : old.nodes[i] = node_id) =>
            \A new \in AllSubgraphs(subgraphs) :
                new.id = old.id => new.nodes = SelectSeq(old.nodes, LAMBDA id : id # node_id)

\* the subgraphs without the node in their subtree are in the forest as before
OthersUntouched(node_id) ==
    \A old \in AllSubgraphs(Before.subgraphs) :
        node_id \notin gather_subgraph_nodes(old) => old \in AllSubgraphs(subgraphs)

\* the subgraphs named by the membership paths exist
PathsExist ==
    \A id \in DOMAIN node_membership :
        \A k \in 1..Len(node_membership[id]) :
            \E sg \in AllSubgraphs(subgraphs) : sg.id = node_membership[id][k]

\* C29: remove_node of a node of the diagram takes the node out of nodes,
\* order and node_membership, takes out exactly the edges that end at it and
\* takes it out of the node list of the subgraph that holds it; the subgraphs
\* without the node in their subtree, the membership paths of the other
\* nodes and the other edges stay as they were, and every subgraph named by a
\* membership path is still in the forest; remove_node of another id returns
\* false and changes nothing.
C29_RemoveNodeFrame ==
    last_edit.op = "remove_node" =>
        IF last_edit.id \in DOMAIN Before.nodes
        THEN /\ last_edit.returned
             /\ NodeTakenOut(last_edit.id)
             /\ edges = Picked(Before.edges, EdgesAwayFrom(Before.edges, last_edit.id))
             /\ OwnerPruned(last_edit.id)
             /\ OthersUntouched(last_edit.id)
             /\ PathsExist
        ELSE ~last_edit.returned /\ Fields = Before

-----------------------------------------------------------------------------
(* The search of adjust_edge_for_conflicts *)

\* the score of the straight route of the edge compute_routes routes next
StraightScore ==
    Metric(edges[route_index],
           build_route(final_positions[edges[route_index].from], <<>>,
                       final_positions[edges[route_index].to]),
           NodeBounds(final_positions), routes)

\* compute_routes is about to route an edge without override and without
\* points of a bidirectional pair, and its straight route does not score (0, 0, 0)
Searching ==
    /\ pc = "routing" /\ route_index <= Len(edges)
    /\ ~has_override(overrides, route_index)
    /\ auto_points(final_positions, overrides, route_index) = None
    /\ StraightScore # Perfect

\* what adjust_edge_for_conflicts returns for that edge
Adjusted ==
    adjust_edge_for_conflicts(final_positions[edges[route_index].from],
                              final_positions[edges[route_index].to], edges[route_index],
                              NodeBounds(final_positions), routes, StraightScore)

\* the attempts with the normal sign 1, then those with -1, then the axis
\* detours; no attempt is made between endpoints too close for an offset
SearchOrder(from, to, distance, base_node_collision) ==
    (IF \/ MaxOffset(distance) <= 0
        \/ SingleBase(distance, base_node_collision, EDGE_SINGLE_OFFSET) <= 0
        \/ SingleBase(distance, base_node_collision, EDGE_SINGLE_STUB) <= 0
     THEN <<>>
     ELSE NormalCandidates(from, to,
              SingleBase(distance, base_node_collision, EDGE_SINGLE_OFFSET),
              SingleBase(distance, base_node_collision, EDGE_SINGLE_STUB),
              MaxOffset(distance), 1)
          \o NormalCandidates(from, to,
              SingleBase(distance, base_node_collision, EDGE_SINGLE_OFFSET),
              SingleBase(distance, base_node_collision, EDGE_SINGLE_STUB),
              MaxOffset(distance), -1))
    \o generate_axis_detours(from, to)

SearchCandidates ==
    SearchOrder(final_positions[edges[route_index].from],
                final_positions[edges[route_index].to],
                Distance(final_positions[edges[route_index].from],
                         final_positions[edges[route_index].to]),
                StraightScore[1] = 1)

\* the scores of the candidates, in their order
ScoresOf(cands) ==
    [k \in 1..Len(cands) |->
        Metric(edges[route_index],
               build_route(final_positions[edges[route_index].from], cands[k],
                           final_positions[edges[route_index].to]),
               NodeBounds(final_positions), routes)]

\* the first place with the smallest score
FirstBest(scores) ==
    CHOOSE k \in 1..Len(scores) :
        /\ \A j \in 1..Len(scores) : ~LexLess(scores[j], scores[k])
        /\ \A j \in 1..(k - 1) : scores[j] # scores[k]

\* the first candidate with the smallest score, when that score is smaller
\* than the score of the straight route
BestImprovement(cands, scores, base_metric) ==
    IF cands = <<>> THEN None
    ELSE IF LexLess(scores[FirstBest(scores)], base_metric)
    THEN Some(cands[FirstBest(scores)])
    ELSE None

\* the first candidate that scores (0, 0, 0), if there is one
FirstPerfect(cands, scores) ==
    IF \E k \in 1..Len(scores) : scores[k] = Perfect
    THEN Some(cands[CHOOSE k \in 1..Len(scores) :
                       /\ scores[k] = Perfect
                       /\ \A j \in 1..(k - 1) : scores[j] # Perfect])
    ELSE None

\* C22: for an edge without override and without points of a bidirectional
\* pair whose straight route does not score (0, 0, 0),
\* adjust_edge_for_conflicts returns the first candidate that scores (0, 0, 0),
\* the candidates taken in the order +normal attempts, -normal attempts, axis
\* detours; when no candidate does, it returns the first candidate with the
\* smallest score if that score is lexicographically smaller than the score
\* of the straight route, and nothing otherwise; what it returns never scores
\* worse than the straight route.
C22_ConflictSearch ==
    Searching =>
        \A cands \in {SearchCandidates} :
            \A scores \in {ScoresOf(cands)} :
                /\ FirstPerfect(cands, scores) # None => Adjusted = FirstPerfect(cands, scores)
                /\ FirstPerfect(cands, scores) = None =>
                       Adjusted = BestImprovement(cands, scores, StraightScore)
                /\ Adjusted # None =>
                       ~LexLess(StraightScore, ScoresOf(<<Adjusted[1]>>)[1])

\* the search returns a candidate that does not score (0, 0, 0)
C22_Witness ==
    /\ Searching
    /\ Adjusted # None
    /\ ScoresOf(<<Adjusted[1]>>)[1] # Perfect

-----------------------------------------------------------------------------
(* The segment detour pass *)

\* compute_routes is about to route an edge without manual override
Detouring ==
    /\ pc = "routing" /\ route_index <= Len(edges)
    /\ ~has_override(overrides, route_index)

\* the path the pass starts from
PassStart ==
    AdjustedPath(edges[route_index], final_positions[edges[route_index].from],
                 final_positions[edges[route_index].to],
                 MiddlePoints(final_positions, overrides, route_index),
                 NodeBounds(final_positions), routes)

\* the path the pass ends with
PassEnd(start) ==
    DetourPass(edges[route_index], start, NodeBounds(final_positions), routes, hash_order, 0)

Crosses(path) == route_collides_with_nodes(edges[route_index], path, NodeBounds(final_positions))

ScoreOf(path) == Metric(edges[route_index], path, NodeBounds(final_positions), routes)

\* some jog of the path around a node it crosses scores less than the path
Improvable(path) ==
    \E cands \in {DetourCandidates(edges[route_index], path, NodeBounds(final_positions),
                                   hash_order, 1)} :
        \E k \in 1..Len(cands) : LexLess(ScoreOf(cands[k]), ScoreOf(path))

\* one turn of the loop: the path it leaves
Turn(path) ==
    IF Crosses(path) /\ Improvable(path)
    THEN detour_route_for_collisions(edges[route_index], path, NodeBounds(final_positions),
                                     routes, hash_order)[1]
    ELSE path

\* a detour is applied to p and gives q
Applied(p, q) == Crosses(p) /\ Improvable(p) /\ q = Turn(p)

\* the paths p1, p2, p3 follow the start by applied detours as long as the
\* path crosses a node and a candidate improves it, and the pass ends with p3
PassOf(start, p1, p2, p3) ==
    /\ PassEnd(start) = p3
    /\ Applied(start, p1) => LexLess(ScoreOf(p1), ScoreOf(start))
    /\ Applied(p1, p2) => LexLess(ScoreOf(p2), ScoreOf(p1))
    /\ Applied(p2, p3) => LexLess(ScoreOf(p3), ScoreOf(p2))
    /\ ~Crosses(start) => ~Crosses(p3)
    /\ ~LexLess(ScoreOf(start), ScoreOf(p3))

\* C23: for every edge without manual override the segment detour pass
\* applies at most 3 detours: it ends with the path reached after at most
\* three turns, a turn applying a detour only while the path crosses the
\* inflated rectangle of a third-party node and a candidate improves the
\* score; each applied detour scores strictly less, lexicographically, than
\* the path it replaces, so a path that crosses no node is never replaced by
\* one that does.
C23_DetourPass ==
    Detouring =>
        \A start \in {PassStart} :
            \A p1 \in {Turn(start)} :
                \A p2 \in {Turn(p1)} :
                    \A p3 \in {Turn(p2)} : PassOf(start, p1, p2, p3)

\* the pass applies a detour
C23_Witness ==
    /\ Detouring
    /\ Applied(PassStart, PassEnd(PassStart))
    /\ LexLess(ScoreOf(PassEnd(PassStart)), ScoreOf(PassStart))

-----------------------------------------------------------------------------
(* The frames of nested subgraphs *)

\* the places of the frames made for a subgraph in the list align_geometry returned
FramesOf(sg) == {i \in 1..Len(geometry.subgraphs) : geometry.subgraphs[i].order = sg.order}

\* the rectangle with the padding of a subgraph around it
Padded(rect) ==
    [min_x |-> rect.min_x - SUBGRAPH_PADDING, max_x |-> rect.max_x + SUBGRAPH_PADDING,
     min_y |-> rect.min_y - SUBGRAPH_PADDING, max_y |-> rect.max_y + SUBGRAPH_PADDING]

Within(inner, outer) ==
    /\ outer.min_x <= inner.min_x /\ inner.max_x <= outer.max_x
    /\ outer.min_y <= inner.min_y /\ inner.max_y <= outer.max_y

\* a node of the subgraph's subtree has a position
HasPositioned(sg) == gather_subgraph_nodes(sg) \cap DOMAIN geometry.positions # {}

\* the frame at place i holds the padded rectangles of the subgraph's own
\* positioned nodes and of the frames of its children, which come later
Encloses(sg, i) ==
    /\ geometry.subgraphs[i].id = sg.id
    /\ \A k \in 1..Len(sg.nodes) :
          sg.nodes[k] \in DOMAIN geometry.positions =>
              Within(Padded(node_rect(geometry.positions[sg.nodes[k]])),
                     VisualRect(geometry.subgraphs[i]))
    /\ \A c \in 1..Len(sg.children) :
          \A j \in FramesOf(sg.children[c]) :
              /\ Within(Padded(VisualRect(geometry.subgraphs[j])),
                        VisualRect(geometry.subgraphs[i]))
              /\ i < j

\* C24: a subgraph with a positioned node in its subtree has one frame, and
\* the frame contains, with at least SUBGRAPH_PADDING on every side, the
\* rectangle of each positioned node it owns directly and the frame of each
\* child; a subgraph without a positioned node in its subtree has no frame;
\* the list of frames is sorted by depth, then declaration order, then id,
\* so a parent comes before its children.
C24_NestedFrames ==
    pc = "aligned" =>
        /\ \A sg \in AllSubgraphs(subgraphs) :
              IF HasPositioned(sg)
              THEN Cardinality(FramesOf(sg)) = 1 /\ \A i \in FramesOf(sg) : Encloses(sg, i)
              ELSE FramesOf(sg) = {}
        /\ \A i \in 1..Len(geometry.subgraphs) :
              /\ \E sg \in AllSubgraphs(subgraphs) : i \in FramesOf(sg)
              /\ \A j \in (i + 1)..Len(geometry.subgraphs) :
                    ~VisualBefore(geometry.subgraphs[j], geometry.subgraphs[i])

\* a subgraph with a frame holds a child with a frame, and another subgraph
\* has no positioned node and no frame
C24_Witness ==
    /\ pc = "aligned"
    /\ \E sg \in AllSubgraphs(subgraphs) :
          /\ FramesOf(sg) # {}
          /\ \E c \in 1..Len(sg.children) : FramesOf(sg.children[c]) # {}
    /\ \E sg \in AllSubgraphs(subgraphs) : ~HasPositioned(sg) /\ FramesOf(sg) = {}

-----------------------------------------------------------------------------
(* Claims about the layout block, checked under SpecBlock *)

\* the task that wrote the file has returned, and the file has been read back
WrittenAndLoaded ==
    /\ tasks[1].op = "write_definition_with_overrides" /\ tasks[1].at = "done"
    /\ loaded # NothingLoaded

\* the lines of a text without the empty lines at its end
RECURSIVE DropEmptyEnd(_)
DropEmptyEnd(ls) ==
    IF ls # <<>> /\ ls[Len(ls)] = <<>> THEN DropEmptyEnd(SubSeq(ls, 1, Len(ls) - 1)) ELSE ls

LinesOf(text) == DropEmptyEnd(SplitLines(text))

\* the markers of a text, in the order of their lines
MarkersOf(text) ==
    SelectSeq([i \in 1..Len(SplitLines(text)) |->
                  IF eq_ignore_ascii_case(Trim(SplitLines(text)[i]), LAYOUT_BLOCK_START)
                  THEN "start"
                  ELSE IF eq_ignore_ascii_case(Trim(SplitLines(text)[i]), LAYOUT_BLOCK_END)
                  THEN "end" ELSE "line"],
              LAMBDA m : m # "line")

\* a start in a block, an end outside a block, a block left open
Nested(markers) == \E i \in 1..(Len(markers) - 1) : markers[i] = "start" /\ markers[i + 1] = "start"
Unopened(markers) ==
    \E i \in 1..Len(markers) : markers[i] = "end" /\ (i = 1 \/ markers[i - 1] = "end")
LeftOpen(markers) == markers # <<>> /\ markers[Len(markers)] = "start"

\* the errors of a text with markers out of place
MarkerErrors(markers) ==
    /\ Nested(markers) \/ Unopened(markers) \/ LeftOpen(markers) => ~loaded.ok
    /\ loaded.error = "nested sections are not supported" => Nested(markers)
    /\ loaded.error = "end without a matching start" => Unopened(markers)
    /\ loaded.error = "layout metadata block was not terminated" => LeftOpen(markers)

\* what is read back from a file that merge_source_and_overrides wrote
ReadBack(SameText(_, _)) ==
    WrittenAndLoaded =>
        /\ loaded.ok
        /\ loaded.overrides = store
        /\ SameText(loaded.definition, tasks[1].arg)
        /\ is_empty(store) => source_file = TrimEndNewlines(tasks[1].arg) \o <<NL>>
        /\ ~is_empty(store) => MarkersOf(source_file) = <<"start", "end">>

SameUpToNewlines(a, b) == TrimEndNewlines(a) = TrimEndNewlines(b)

SameLines(a, b) == LinesOf(a) = LinesOf(b)

\* C26: split_source_and_overrides applied to the text
\* merge_source_and_overrides wrote for a definition without marker lines
\* returns the overrides that were written and a definition with the same
\* lines, up to the empty lines at the end (a line end "\r\n" comes back as
\* "\n"); empty overrides are written without a block; a start marker in a
\* block, an end marker outside a block and a block left open are errors.
C26_BlockRoundTrip ==
    /\ ReadBack(SameLines)
    /\ loaded # NothingLoaded => MarkerErrors(MarkersOf(source_file))

\* C26 as stated: the definition comes back the same up to trailing newlines
C26_SameDefinition ==
    /\ ReadBack(SameUpToNewlines)
    /\ loaded # NothingLoaded => MarkerErrors(MarkersOf(source_file))

\* overrides with two maps filled are written and read back
C26_Witness ==
    /\ WrittenAndLoaded
    /\ loaded.ok
    /\ DOMAIN store.nodes # {} /\ DOMAIN store.edge_styles # {}
    /\ loaded.overrides = store

-----------------------------------------------------------------------------
(* C27 *)

\* a task has changed the overrides with the named handler
Changed(t, op) == tasks[t].op = op /\ tasks[t].at \in {"snapshot", "done"}

\* the overrides hold no edge override without points and no style without a
\* set field
NoEmptyEntries(ov) ==
    /\ \A id \in DOMAIN ov.edges : ov.edges[id].points # <<>>
    /\ \A id \in DOMAIN ov.node_styles : \E f \in DOMAIN ov.node_styles[id] : ov.node_styles[id][f] # None
    /\ \A id \in DOMAIN ov.edge_styles : \E f \in DOMAIN ov.edge_styles[id] : ov.edge_styles[id][f] # None

\* the value of a field once a patch is applied to the entry a map had for the id
FieldAfter(map, id, patch, f) ==
    IF patch[f] # None THEN patch[f][1]
    ELSE IF id \in DOMAIN map THEN map[id][f] ELSE None

\* an update value that asks for no entry: null, or a patch that leaves
\* every field unset
LeavesUnset(map, id, value) ==
    value = None \/ \A f \in DOMAIN value[1] : FieldAfter(map, id, value[1], f) = None

\* every id an update gave null, no points or an all-unset patch for has no
\* entry after the update
UpdateRemoved(arg, after) ==
    /\ \A id \in DOMAIN arg.nodes : arg.nodes[id] = None => id \notin DOMAIN after.nodes
    /\ \A id \in DOMAIN arg.edges :
          (arg.edges[id] = None \/ arg.edges[id][1].points = <<>>) => id \notin DOMAIN after.edges

StyleRemoved(arg, before, after) ==
    /\ \A id \in DOMAIN arg.node_styles :
          LeavesUnset(before.node_styles, id, arg.node_styles[id])
              => id \notin DOMAIN after.node_styles
    /\ \A id \in DOMAIN arg.edge_styles :
          LeavesUnset(before.edge_styles, id, arg.edge_styles[id])
              => id \notin DOMAIN after.edge_styles

\* C27: started from overrides without empty entries, the stored overrides
\* never hold an edge override with no points or a node or edge style with
\* every field unset, whatever apply_update and apply_style_update calls were
\* made; and an update that gives null, an empty point list or a patch that
\* leaves every field unset for an id leaves no entry for that id.
C27_NoEmptyOverrides ==
    /\ NoEmptyEntries(store)
    /\ \A t \in TaskIds :
          /\ Changed(t, "apply_update")
                => /\ NoEmptyEntries(tasks[t].snapshot[1])
                   /\ UpdateRemoved(tasks[t].arg, tasks[t].snapshot[1])
          /\ Changed(t, "apply_style_update")
                => /\ NoEmptyEntries(tasks[t].snapshot[1])
                   /\ StyleRemoved(tasks[t].arg, tasks[t].before[1], tasks[t].snapshot[1])

\* a patch that unsets the last set field of a style took the entry out, and
\* an update with an empty point list took an edge override out
C27_Witness ==
    /\ \E t \in TaskIds :
          /\ Changed(t, "apply_style_update")
          /\ \E id \in DOMAIN tasks[t].arg.node_styles :
                /\ tasks[t].arg.node_styles[id] # None
                /\ id \in DOMAIN tasks[t].before[1].node_styles
                /\ id \notin DOMAIN tasks[t].snapshot[1].node_styles
    /\ \E t \in TaskIds :
          /\ Changed(t, "apply_update")
          /\ \E id \in DOMAIN tasks[t].arg.edges :
                /\ tasks[t].arg.edges[id] # None
                /\ id \in DOMAIN tasks[t].before[1].edges
                /\ id \notin DOMAIN tasks[t].snapshot[1].edges

-----------------------------------------------------------------------------
(* C25 *)

\* a structural edit was run on its own and has returned, and the file was
\* read back
EditedAlone ==
    /\ tasks[1].op \in {"remove_node", "remove_edge", "replace_source"}
    /\ tasks[1].at = "done"
    /\ tasks[2].at = "idle"
    /\ loaded # NothingLoaded

\* the diagram stored in the file has been parsed
StoredParsed == loaded.ok /\ pc = "parsed"

\* every key of the overrides is an id of the diagram
KeysWithin(ov, ids) ==
    /\ DOMAIN ov.nodes \subseteq ids.nodes
    /\ DOMAIN ov.node_styles \subseteq ids.nodes
    /\ DOMAIN ov.edges \subseteq ids.edges
    /\ DOMAIN ov.edge_styles \subseteq ids.edges

\* the entries of a map for ids of the diagram are the ones it had, and it
\* has no others
SameEntries(before, after, ids) ==
    /\ DOMAIN after = DOMAIN before \cap ids
    /\ \A id \in DOMAIN after : after[id] = before[id]

EntriesKept(before, after, ids) ==
    /\ SameEntries(before.nodes, after.nodes, ids.nodes)
    /\ SameEntries(before.node_styles, after.node_styles, ids.nodes)
    /\ SameEntries(before.edges, after.edges, ids.edges)
    /\ SameEntries(before.edge_styles, after.edge_styles, ids.edges)

\* C25: after ServeState::remove_node or remove_edge has removed something,
\* or replace_source has returned without an error (each run on its own, from
\* overrides that may hold keys of ids the diagram does not have), the file
\* holds a diagram that parses, every key of overrides.nodes and
\* overrides.node_styles is a node id of that diagram and every key of
\* overrides.edges and overrides.edge_styles is the identifier of one of its
\* edges, in memory and in the layout block of the file; the entries of ids
\* that are still present are the ones the overrides held before the prune.
C25_PrunedAfterEdit ==
    (EditedAlone /\ tasks[1].result = "ok")
        => /\ loaded.ok
           /\ pc # "failed"
           /\ StoredParsed
                 => /\ KeysWithin(store, IdsOf(nodes, edges))
                    /\ KeysWithin(loaded.overrides, IdsOf(nodes, edges))
                    /\ EntriesKept(tasks[1].before[1], store, IdsOf(nodes, edges))
                    /\ EntriesKept(tasks[1].before[1], loaded.overrides, IdsOf(nodes, edges))

\* C25 as stated: after any call of remove_node, remove_edge or
\* replace_source that has returned a value, every key of the overrides is
\* an id of the stored diagram, in memory and in the block of the file.
C25_PrunedAfterCall ==
    (EditedAlone /\ tasks[1].result \in {"ok", "false"} /\ StoredParsed)
        => /\ KeysWithin(store, IdsOf(nodes, edges))
           /\ KeysWithin(loaded.overrides, IdsOf(nodes, edges))

\* an edit on its own pruned some entries and kept others, and the file was
\* read back and parsed
C25_Witness ==
    /\ EditedAlone
    /\ tasks[1].result = "ok"
    /\ StoredParsed
    /\ tasks[1].before[1] # store
    /\ ~is_empty(store)

-----------------------------------------------------------------------------
(* C28 *)

\* every call has returned and the file was read back
AllReturned ==
    /\ \A t \in TaskIds : tasks[t].at \in {"idle", "done"}
    /\ loaded # NothingLoaded

\* the layout block of the file holds the overrides the server has in memory
BlockMatchesMemory == loaded.ok /\ loaded.overrides = store

\* C28: once the calls of apply_update, apply_style_update, remove_node,
\* remove_edge and replace_source that ran at the same time have all
\* returned, the layout block of the source file equals the overrides in
\* memory; and no call writes a snapshot of the overrides to the file after a
\* snapshot taken later has been written.
C28_PersistedMatchesMemory ==
    /\ AllReturned => BlockMatchesMemory
    /\ ~written.stale

\* a call run on its own leaves the block of the file equal to the overrides
\* in memory
OneCallMatches ==
    (AllReturned /\ tasks[2].at = "idle") => BlockMatchesMemory

\* the calls have returned and the block of the file equals the overrides in
\* memory
QuiescentMatch == AllReturned => BlockMatchesMemory

-----------------------------------------------------------------------------
(* C30 *)

\* the last row a handler returned or wrote belongs to the session of the
\* request
OwnSessionOnly == reached.hit => reached.own

\* the last row a handler returned or wrote was not soft-deleted then
NotDeletedThen == reached.hit => ~reached.deleted

\* a soft-deleted row is not returned by get_by_id, list_by_session or
\* count_by_session
DeletedIsHidden ==
    \A id \in DOMAIN database.rows : \A session_id \in Sessions :
        database.rows[id].is_deleted
            => /\ get_by_id(database, id, session_id) = None
               /\ id \notin list_by_session(database, session_id)
               /\ count_by_session(database, session_id)
                     = Cardinality(list_by_session(database, session_id) \ {id})

\* a request holds the DiagramFile of a row of its own session only
HeldIsOwn ==
    \A r \in RequestIds :
        requests[r].at = "found" => requests[r].held[1].session_id = requests[r].session[1]

\* C30: a request that carries session S never reads, renames, rewrites,
\* duplicates or deletes a diagram of another session, never reaches a
\* diagram that has been soft-deleted, and a soft-deleted diagram is not
\* returned by get_by_id, list_by_session or count_by_session.
C30_SessionIsolation ==
    /\ OwnSessionOnly
    /\ NotDeletedThen
    /\ DeletedIsHidden

\* the part of C30 about the sessions and about the lookups, without the
\* rows reached by the second statement of a handler
SessionsApart ==
    /\ OwnSessionOnly
    /\ HeldIsOwn
    /\ DeletedIsHidden

\* once soft-deleted, a row stays soft-deleted while it is in the table
StaysDeleted ==
    [][\A id \in DOMAIN database.rows :
          (database.rows[id].is_deleted /\ id \in DOMAIN database'.rows)
              => database'.rows[id].is_deleted]_vars

=============================================================================
